---------------------------- MODULE Spec2Model ----------------------------
(***************************************************************************)
(* jsondb-high: the JSONDatabase engine (the TypeScript class of index.ts, *)
(* kept in src/tests/database.test.ts lines 1900-3566) over its native     *)
(* binding NativeDb.  The native binding is not part of the sources; its   *)
(* operations, named native_..., are modelled from the specification       *)
(* (sections 3 and 4.1 to 4.8).                                            *)
(***************************************************************************)
EXTENDS Integers, Sequences, FiniteSets, TLC

VARIABLES
    cfg,      \* the DBOptions every open of the behaviour is given
    js,       \* per opener: the fields of the JSONDatabase object
    nat,      \* per opener: the NativeDb instance this.native refers to
    orphan,   \* per opener: lock mode still held by a NativeDb instance
              \* that loadData replaced and nobody closes
    disk,     \* the files: snapshot, WAL of <path>, WAL of <path>.tmp, sidecar
    last,     \* the outcome of the last operation (what the caller observed)
    g         \* history of acknowledged writes (used to state the claims)

vars == <<cfg, js, nat, orphan, disk, last, g>>

(***************************************************************************)
(* Bounds of the model.                                                    *)
(***************************************************************************)
MaxWal == 2        \* records a WAL holds before writers must checkpoint
MaxArr == 2        \* longest array a push may build
MaxSavepoints == 1 \* savepoints (nested transactions included) per transaction
MaxNum == 3        \* largest number add may produce
MaxCalls == 2      \* calls of one object waiting at an await at the same time
MaxSubs == 2       \* unsubscribe functions of one callback not called yet

Procs == {1, 2}

(***************************************************************************)
(* Values: the tagged union of section 3.  Undefined is the absent value   *)
(* (JS undefined / a missing path); Null is JSON null.                     *)
(***************************************************************************)
Null == [z |-> 0]
Undefined == [u |-> 0]
Num(n) == [n |-> n]
Str(s) == [s |-> s]
Arr(q) == [a |-> q]
Obj(f) == [o |-> f]
EmptyFn == [k \in {} |-> Null]
EmptyObj == Obj(EmptyFn)

IsObj(v) == DOMAIN v = {"o"}
IsArr(v) == DOMAIN v = {"a"}
IsNum(v) == DOMAIN v = {"n"}
IsAbsent(v) == v = Undefined

\* {k: v}
Obj1(k, v) == Obj([x \in {k} |-> v])
\* the object f with key k set to v
Put(f, k, v) == [x \in (DOMAIN f) \cup {k} |-> IF x = k THEN v ELSE f[x]]
\* the object f without key k
Drop(f, k) == [x \in (DOMAIN f) \ {k} |-> f[x]]

\* An array index segment: ^\d+$ (section 4.2); 0 when the segment is no index.
IndexOf(k) == CASE k = "0" -> 1 [] k = "1" -> 2 [] k = "2" -> 3 [] OTHER -> 0

(***************************************************************************)
(* The value tree (component C1): path navigation and mutation.            *)
(***************************************************************************)
RECURSIVE native_get_at(_, _)
native_get_at(t, p) ==
    IF p = <<>> THEN t
    ELSE IF IsObj(t) /\ Head(p) \in DOMAIN t.o
         THEN native_get_at(t.o[Head(p)], Tail(p))
    ELSE IF IsArr(t) /\ IndexOf(Head(p)) \in 1..Len(t.a)
         THEN native_get_at(t.a[IndexOf(Head(p))], Tail(p))
    ELSE Undefined

\* Whether a write at p can go through t: missing segments are created as
\* objects, an array is entered by an index in range, a scalar is no container.
RECURSIVE PathOk(_, _)
PathOk(t, p) ==
    IF p = <<>> THEN TRUE
    ELSE IF IsAbsent(t) THEN TRUE
    ELSE IF IsObj(t)
         THEN IF Head(p) \in DOMAIN t.o THEN PathOk(t.o[Head(p)], Tail(p)) ELSE TRUE
    ELSE IF IsArr(t)
         THEN IndexOf(Head(p)) \in 1..Len(t.a)
              /\ PathOk(t.a[IndexOf(Head(p))], Tail(p))
    ELSE Len(p) = 0

RECURSIVE native_set_at(_, _, _)
native_set_at(t, p, v) ==
    IF p = <<>> THEN v
    ELSE IF IsArr(t)
         THEN Arr([t.a EXCEPT ![IndexOf(Head(p))] =
                       native_set_at(t.a[IndexOf(Head(p))], Tail(p), v)])
    ELSE LET f == IF IsObj(t) THEN t.o ELSE EmptyFn
             c == IF Head(p) \in DOMAIN f THEN f[Head(p)] ELSE Undefined
         IN Obj(Put(f, Head(p), native_set_at(c, Tail(p), v)))

RECURSIVE native_delete_at(_, _)
native_delete_at(t, p) ==
    IF p = <<>> THEN EmptyObj
    ELSE IF IsObj(t) /\ Head(p) \in DOMAIN t.o
         THEN IF Len(p) = 1 THEN Obj(Drop(t.o, Head(p)))
              ELSE Obj(Put(t.o, Head(p), native_delete_at(t.o[Head(p)], Tail(p))))
    ELSE t

\* push with deduplication by deep equality (section 4.8, P6)
InSeq(q, x) == \E j \in 1..Len(q) : q[j] = x
\* an append that keeps duplicates
native_push_append(old, item) ==
    Arr(Append(IF IsArr(old) THEN old.a ELSE <<>>, item))

native_push_val(old, item) ==
    LET q == IF IsArr(old) THEN old.a ELSE <<>>
    IN Arr(IF InSeq(q, item) THEN q ELSE Append(q, item))


(***************************************************************************)
(* Files.  The snapshot file holds a tree, in plain JSON (written by the   *)
(* native checkpoint) or as the AES-256-GCM envelope saveInternal writes.  *)
(* A WAL file is a sequence of records of which the first `synced` are     *)
(* fsynced.  Each NativeDb instance logs next to the path it was created   *)
(* on: "main" is <path>, "tmp" is <path>.tmp.                              *)
(***************************************************************************)
WalFiles == {"main", "tmp"}
IdxKeys == {"1", "2"}
EmptyIndex == [k \in IdxKeys |-> <<>>]

NoFile == [kind |-> "none", data |-> EmptyObj]
DiskInit ==
    [file |-> NoFile,
     wal |-> [f \in WalFiles |-> <<>>],
     synced |-> [f \in WalFiles |-> 0],
     idx |-> [has |-> FALSE, data |-> EmptyIndex]]

\* A WAL record (section 4.5); tx marks a record written inside a transaction.
Rec(op, p, v, tx) == [op |-> op, path |-> p, val |-> v, tx |-> tx]

\* encrypt / decrypt: the envelope of a tree; decrypt throws on anything else.
encrypt(data) == [kind |-> "enc", data |-> data]
CanDecrypt(file) == file.kind = "enc"
\* a decryption that loses the payload
decryptNothing(file) == EmptyObj
decrypt(file) == file.data

(***************************************************************************)
(* Recovery (component C7): replay of a WAL over a snapshot.  Records of a *)
(* transaction take effect at its commit marker; an abort marker or the    *)
(* end of the log discards them.  st.base is the tree before the open span.*)
(***************************************************************************)
ApplyRec(t, r) ==
    CASE r.op = "set" -> native_set_at(t, r.path, r.val)
      [] r.op = "delete" -> native_delete_at(t, r.path)
      [] r.op = "push" ->
            native_set_at(t, r.path, native_push_val(native_get_at(t, r.path), r.val))
      [] r.op = "restore" -> r.val
      [] OTHER -> t

ReplayStep(st, r) ==
    CASE r.op = "commit" -> [cur |-> st.cur, open |-> FALSE, base |-> st.cur]
      [] r.op = "abort" ->
            [cur |-> IF st.open THEN st.base ELSE st.cur, open |-> FALSE,
             base |-> IF st.open THEN st.base ELSE st.cur]
      [] OTHER ->
            IF r.tx
            THEN [cur |-> ApplyRec(st.cur, r), open |-> TRUE,
                  base |-> IF st.open THEN st.base ELSE st.cur]
            ELSE [cur |-> ApplyRec(st.cur, r), open |-> FALSE,
                  base |-> ApplyRec(st.cur, r)]

RECURSIVE ReplayFrom(_, _)
ReplayFrom(st, w) ==
    IF w = <<>> THEN st ELSE ReplayFrom(ReplayStep(st, Head(w)), Tail(w))

Replay(t, w) ==
    LET st == ReplayFrom([cur |-> t, open |-> FALSE, base |-> t], w)
    IN IF st.open THEN st.base ELSE st.cur

\* The records of the transaction still open at the end of the log.
RECURSIVE OpenSpan(_)
OpenSpan(w) ==
    IF w = <<>> THEN <<>>
    ELSE LET r == w[Len(w)]
         IN IF r.tx /\ r.op \notin {"commit", "abort"}
            THEN Append(OpenSpan(SubSeq(w, 1, Len(w) - 1)), r)
            ELSE <<>>

(***************************************************************************)
(* A NativeDb instance.                                                    *)
(***************************************************************************)
NatNone ==
    [open |-> FALSE, target |-> "main", lock |-> "none", dur |-> "none",
     schema |-> FALSE, reg |-> FALSE, tree |-> EmptyObj, tx |-> <<>>,
     index |-> EmptyIndex]

\* NativeDb.newWithOptions(filePath, lockMode, durability, ...)
newWithOptions(lockMode, durability) ==
    [NatNone EXCEPT !.open = TRUE, !.lock = lockMode, !.dur = durability]

\* new NativeDb(path, wal): the legacy constructor takes no lock mode and no
\* durability; wal = true is the default WAL (batched).
NativeDb(target, wal) ==
    [NatNone EXCEPT !.open = TRUE, !.target = target,
                    !.dur = IF wal THEN "batched" ELSE "none"]

\* The advisory lock on <path>.lock (component C6): who holds it, and how.
Held(mode) ==
    {i \in Procs : nat[i].open /\ nat[i].target = "main" /\ nat[i].lock = mode}
        \cup {i \in Procs : orphan[i] = mode}
CanLock(mode) ==
    CASE mode = "exclusive" -> Held("exclusive") = {} /\ Held("shared") = {}
      [] mode = "shared" -> Held("exclusive") = {}
      [] OTHER -> TRUE

(***************************************************************************)
(* Native operations act on a bundle S = [n, d, err]: the instance, the    *)
(* disk and the error thrown so far ("ok" when none); after an error the   *)
(* rest of a handler does not run.                                         *)
(***************************************************************************)
Bundle(n, d) == [n |-> n, d |-> d, err |-> "ok"]
Throw(S, e) == [S EXCEPT !.err = e]

WalAppend(S, r) ==
    IF S.n.dur = "none" \/ S.n.lock = "shared" THEN S
    ELSE LET f == S.n.target
             w == Append(S.d.wal[f], r)
         IN [S EXCEPT !.d.wal[f] = w,
                      !.d.synced[f] = IF S.n.dur = "sync" THEN Len(w) ELSE @]

native_get(n, p) == native_get_at(n.tree, p)
native_has(n, p) == ~IsAbsent(native_get_at(n.tree, p))

\* The error a write at p raises, "ok" when none (sections 4.6, 4.2, 4.1).
WriteError(n, p, v) ==
    IF n.lock = "shared" THEN "ReadOnly"
    ELSE IF p = <<>> /\ ~IsObj(v) THEN "TypeError"
    ELSE IF ~PathOk(n.tree, p) THEN "PathError"
    ELSE "ok"

native_set(S, p, v) ==
    IF S.err # "ok" THEN S
    ELSE IF WriteError(S.n, p, v) # "ok" THEN Throw(S, WriteError(S.n, p, v))
    ELSE WalAppend([S EXCEPT !.n.tree = native_set_at(@, p, v)],
                   Rec("set", p, v, S.n.tx # <<>>))

native_delete(S, p) ==
    IF S.err # "ok" THEN S
    ELSE IF S.n.lock = "shared" THEN Throw(S, "ReadOnly")
    ELSE WalAppend([S EXCEPT !.n.tree = native_delete_at(@, p)],
                   Rec("delete", p, Undefined, S.n.tx # <<>>))

native_push(S, p, item) ==
    IF S.err # "ok" THEN S
    ELSE LET old == native_get(S.n, p)
         IN IF S.n.lock = "shared" THEN Throw(S, "ReadOnly")
            ELSE IF ~IsAbsent(old) /\ ~IsArr(old) THEN Throw(S, "TypeError")
            ELSE IF ~PathOk(S.n.tree, p) \/ p = <<>> THEN Throw(S, "PathError")
            ELSE WalAppend([S EXCEPT !.n.tree =
                                native_set_at(@, p, native_push_val(old, item))],
                           Rec("push", p, item, S.n.tx # <<>>))

\* A record that fails its CRC or is cut short, and the records of a log
\* that precede the first such record.
Torn == Rec("torn", <<>>, Undefined, FALSE)
RECURSIVE WellFormed(_)
WellFormed(w) ==
    IF w = <<>> \/ Head(w) = Torn THEN <<>>
    ELSE <<Head(w)>> \o WellFormed(Tail(w))

\* a load that steps over a record it cannot read
native_loadSkipsTorn(S, snap) ==
    LET f == S.n.target
        w == IF S.n.dur = "none" THEN <<>>
             ELSE SelectSeq(S.d.wal[f], LAMBDA r : r # Torn)
        keep == Len(w) - Len(OpenSpan(w))
    IN IF S.err # "ok" THEN S
       ELSE IF S.n.dur = "none" \/ S.n.lock = "shared"
            THEN [S EXCEPT !.n.tree = Replay(snap, w)]
            ELSE [S EXCEPT !.n.tree = Replay(snap, w),
                           !.d.wal[f] = SubSeq(w, 1, keep),
                           !.d.synced[f] = IF @ > keep THEN keep ELSE @]

\* a load that throws the log away without a checkpoint
native_loadDropsLog(S, snap) ==
    LET f == S.n.target
        w == IF S.n.dur = "none" THEN <<>> ELSE S.d.wal[f]
    IN IF S.err # "ok" THEN S
       ELSE IF S.n.dur = "none" \/ S.n.lock = "shared"
            THEN [S EXCEPT !.n.tree = Replay(snap, w)]
            ELSE [S EXCEPT !.n.tree = Replay(snap, w),
                           !.d.wal[f] = <<>>,
                           !.d.synced[f] = 0]

\* native.load(): snapshot, then the WAL tail up to the first record that
\* cannot be read; the log is cut back to the last good record, and a log
\* ending inside a transaction to the last record outside it.
native_load(S, snap) ==
    LET f == S.n.target
        w == IF S.n.dur = "none" THEN <<>> ELSE WellFormed(S.d.wal[f])
        keep == Len(w) - Len(OpenSpan(w))
    IN IF S.err # "ok" THEN S
       ELSE IF S.n.dur = "none" \/ S.n.lock = "shared"
            THEN [S EXCEPT !.n.tree = Replay(snap, w)]
            ELSE [S EXCEPT !.n.tree = Replay(snap, w),
                           !.d.wal[f] = SubSeq(w, 1, keep),
                           !.d.synced[f] = IF @ > keep THEN keep ELSE @]

\* native.save(): the checkpoint (section 4.5).  Under a shared lock the
\* opener owns no file and the checkpoint writes nothing.  With a transaction
\* open the snapshot is the committed tree and the log keeps the open span.
native_save(S) ==
    LET f == S.n.target
        inTx == S.n.tx # <<>>
        span == IF inTx THEN OpenSpan(S.d.wal[f]) ELSE <<>>
    IN IF S.err # "ok" \/ S.n.lock = "shared" THEN S
       ELSE [S EXCEPT
               !.d.file = [kind |-> "plain",
                           data |-> IF inTx THEN S.n.tx[1].pre ELSE S.n.tree],
               !.d.idx = IF S.n.reg /\ f = "main"
                         THEN [has |-> TRUE,
                               data |-> IF inTx THEN S.n.tx[1].idx ELSE S.n.index]
                         ELSE @,
               !.d.wal[f] = IF S.n.dur = "none" THEN @ ELSE span,
               !.d.synced[f] = IF S.n.dur = "none" THEN @ ELSE Len(span)]

native_sync(S) ==
    IF S.err # "ok" THEN S
    ELSE [S EXCEPT !.d.synced[S.n.target] = Len(S.d.wal[S.n.target])]

\* native.close(): flushes the log and releases the lock.
native_close(S) ==
    IF S.err # "ok" THEN S
    ELSE [S EXCEPT !.d.synced[S.n.target] = Len(S.d.wal[S.n.target]),
                   !.n = NatNone]


(***************************************************************************)
(* Native transactions (section 4.8.1): a stack of pre-images, the first   *)
(* taken at begin, one more per savepoint.                                 *)
(***************************************************************************)
PreImage(name, n) == [name |-> name, pre |-> n.tree, idx |-> n.index]

native_beginTransaction(S) ==
    IF S.err # "ok" THEN S
    ELSE [S EXCEPT !.n.tx = <<PreImage("begin", S.n)>>]

native_createSavepoint(S, name) ==
    IF S.err # "ok" THEN S
    ELSE IF S.n.tx = <<>> THEN Throw(S, "TxConflict")
    ELSE [S EXCEPT !.n.tx = Append(@, PreImage(name, S.n))]

\* The most recent savepoint of that name; 0 when there is none.
FindSavepoint(tx, name) ==
    LET js_ == {j \in 2..Len(tx) : tx[j].name = name}
    IN IF js_ = {} THEN 0 ELSE CHOOSE j \in js_ : \A k \in js_ : k <= j

native_rollbackToSavepoint(S, name) ==
    LET j == FindSavepoint(S.n.tx, name)
    IN IF S.err # "ok" THEN S
       ELSE IF j = 0 THEN Throw(S, "TxConflict")
       ELSE WalAppend([S EXCEPT !.n.tree = S.n.tx[j].pre,
                                !.n.index = S.n.tx[j].idx],
                      Rec("restore", <<>>, S.n.tx[j].pre, TRUE))

native_commitTransaction(S) ==
    IF S.err # "ok" THEN S
    ELSE WalAppend([S EXCEPT !.n.tx = <<>>], Rec("commit", <<>>, Undefined, TRUE))

native_rollbackTransaction(S) ==
    IF S.err # "ok" THEN S
    ELSE IF S.n.tx = <<>> THEN Throw(S, "TxConflict")
    ELSE WalAppend([S EXCEPT !.n.tree = S.n.tx[1].pre,
                             !.n.index = S.n.tx[1].idx,
                             !.n.tx = <<>>],
                   Rec("abort", <<>>, Undefined, TRUE))

(***************************************************************************)
(* Index store (component C3): one index, {name: "email", path: "u",       *)
(* field: "e"}.  The store maps the string form of a field value to the    *)
(* ordered set of document paths.                                          *)
(***************************************************************************)
IdxPath == <<"u">>
IdxField == "e"

\* String(value), the hash key of a field value
ToKey(v) ==
    CASE v = Num(1) -> "1"
      [] v = Num(2) -> "2"
      [] v = Str("1") -> "1"
      [] v = Str("2") -> "2"
      [] OTHER -> "2"

Without(q, x) == SelectSeq(q, LAMBDA y : y # x)

\* native.updateIndex(name, value, path, isDelete): an insert first removes
\* the entry the path had under another value.
native_updateIndex(n, v, path, isDelete) ==
    IF isDelete
    THEN [n EXCEPT !.index[ToKey(v)] = Without(@, path)]
    ELSE [n EXCEPT !.index =
            [k \in IdxKeys |->
                IF k = ToKey(v)
                THEN IF InSeq(n.index[k], path) THEN n.index[k]
                     ELSE Append(n.index[k], path)
                ELSE Without(n.index[k], path)]]

native_clearIndex(n) == [n EXCEPT !.index = EmptyIndex]

\* native.findIndexPaths(name, value): the paths filed under the value, and
\* IndexError for a name that was not registered (section 7); the one index
\* of the model is "email"
native_findIndexPaths(n, name, v) ==
    IF n.reg /\ name = "email"
    THEN [err |-> "ok", paths |-> n.index[ToKey(v)]]
    ELSE [err |-> "IndexError", paths |-> <<>>]

\* item[field]: undefined unless item is an object holding the field
Field(item, f) ==
    IF IsObj(item) /\ f \in DOMAIN item.o THEN item.o[f] ELSE Undefined

\* Object.entries(collection): the keys in a fixed order
KeyOrder == <<"0", "1", "a", "b", "e", "h", "t", "u", "x", "y">>
Entries(coll) ==
    IF IsObj(coll) THEN SelectSeq(KeyOrder, LAMBDA k : k \in DOMAIN coll.o)
    ELSE IF IsArr(coll) THEN SelectSeq(<<"0", "1">>, LAMBDA k : IndexOf(k) <= Len(coll.a))
    ELSE <<>>

RECURSIVE RebuildFrom(_, _, _)
RebuildFrom(n, coll, keys) ==
    IF keys = <<>> THEN n
    ELSE LET key == Head(keys)
             item == native_get_at(coll, <<key>>)
             val == Field(item, IdxField)
         IN RebuildFrom(IF IsAbsent(val) THEN n
                        ELSE native_updateIndex(n, val, Append(IdxPath, key), FALSE),
                        coll, Tail(keys))

rebuildIndexByName(n) ==
    LET collection == native_get(n, IdxPath)
    IN RebuildFrom(native_clearIndex(n), collection, Entries(collection))

updateIndicesForPath(n, idxOn, path, value, isDelete) ==
    LET fieldValue == Field(value, IdxField)
    IN IF ~idxOn \/ Len(path) < 2 THEN n
       ELSE IF SubSeq(path, 1, Len(path) - 1) # IdxPath THEN n
       ELSE IF IsAbsent(fieldValue) THEN n
       ELSE native_updateIndex(n, fieldValue, path, isDelete)

(***************************************************************************)
(* Parallel executor (component C9, section 4.9): filters over the         *)
(* children of a collection.                                               *)
(***************************************************************************)
Filter(field, op, value) == [field |-> field, op |-> op, value |-> value]

\* one filter on one item; of the operators "eq" and "gte" are modelled
Matches(item, f) ==
    LET v == Field(item, f.field)
    IN CASE f.op = "eq" -> v = f.value
         [] f.op = "gte" -> IsNum(v) /\ IsNum(f.value) /\ v.n >= f.value.n
         [] OTHER -> FALSE
MatchesAll(item, filters) == \A k \in 1..Len(filters) : Matches(item, filters[k])

\* the children of a collection cut into consecutive chunks of a size
RECURSIVE Chunks(_, _)
Chunks(q, size) ==
    IF Len(q) <= size THEN <<q>>
    ELSE <<SubSeq(q, 1, size)>> \o Chunks(SubSeq(q, size + 1, Len(q)), size)
RECURSIVE Concat(_)
Concat(qs) == IF qs = <<>> THEN <<>> ELSE Head(qs) \o Concat(Tail(qs))

\* native.parallelQuery(path, filters) with the children processed in chunks
\* of size chunk: an equality filter on the field of an index on the
\* collection is answered by the paths the index files under the value, the
\* remaining filters are applied to those; otherwise every chunk is filtered
\* and the results are concatenated in the order of the chunks
native_parallelQuery(n, path, filters, chunk) ==
    LET coll == native_get(n, path)
        keys == Entries(coll)
        item(k) == native_get_at(coll, <<k>>)
        eqs == {k \in 1..Len(filters) :
                   filters[k].op = "eq" /\ filters[k].field = IdxField}
        seeded == n.reg /\ path = IdxPath /\ eqs # {}
        e == CHOOSE k \in eqs : \A m \in eqs : k <= m
        seed == n.index[ToKey(filters[e].value)]
        rest == [k \in 1..(Len(filters) - 1) |->
                    IF k < e THEN filters[k] ELSE filters[k + 1]]
        kept == IF seeded
                THEN SelectSeq(keys, LAMBDA k :
                         InSeq(seed, Append(path, k)) /\ MatchesAll(item(k), rest))
                ELSE LET parts == Chunks(keys, chunk)
                     IN Concat([c \in 1..Len(parts) |->
                            SelectSeq(parts[c], LAMBDA k : MatchesAll(item(k), filters))])
    IN [k \in 1..Len(kept) |-> item(kept[k])]

\* String(v) of the values that are joined on
String(v) ==
    CASE IsNum(v) -> (CASE v.n = 0 -> "0" [] v.n = 1 -> "1" [] v.n = 2 -> "2"
                        [] v.n = 3 -> "3" [] OTHER -> "4")
      [] DOMAIN v = {"s"} -> v.s
      [] v = Null -> "null"
      [] v = Undefined -> "undefined"
      [] IsArr(v) -> ""
      [] OTHER -> "[object Object]"

\* the items of a collection: the elements of an array, Object.values of an
\* object, nothing otherwise
Values(coll) ==
    LET keys == Entries(coll)
    IN [k \in 1..Len(keys) |-> native_get_at(coll, <<keys[k]>>)]

\* {...item, [as]: matches}
Attach(item, as, matches) ==
    Obj(Put(IF IsObj(item) THEN item.o ELSE EmptyFn, as, Arr(matches)))

\* QueryBuilder.join({to, localField, foreignField, as}) on the items of a
\* query: the lookup map of the target collection, then one copy per item
joinInner(items, targetCollection, localField, foreignField, as) ==
    LET targetItems == Values(targetCollection)
        lookup(key) ==
            SelectSeq(targetItems, LAMBDA t : String(Field(t, foreignField)) = key)
        hit == SelectSeq(items,
                   LAMBDA item : lookup(String(Field(item, localField))) # <<>>)
    IN [k \in 1..Len(hit) |->
           Attach(hit[k], as, lookup(String(Field(hit[k], localField))))]
join(items, targetCollection, localField, foreignField, as) ==
    LET targetItems == Values(targetCollection)
        lookup(key) ==
            SelectSeq(targetItems, LAMBDA t : String(Field(t, foreignField)) = key)
    IN [k \in 1..Len(items) |->
           Attach(items[k], as, lookup(String(Field(items[k], localField))))]

\* native.parallelLookup (section 4.9): the right collection is cut into
\* buckets by String(item[rightField]); the left collection is probed in
\* chunks, a copy of each left item gets its bucket under asField, and the
\* chunks are put together in the order of the left collection
native_parallelLookup(n, leftPath, rightPath, leftField, rightField, asField, chunk) ==
    LET left == Values(native_get(n, leftPath))
        right == Values(native_get(n, rightPath))
        bucket(key) == SelectSeq(right, LAMBDA r : String(Field(r, rightField)) = key)
        parts == Chunks(left, chunk)
    IN Concat([c \in 1..Len(parts) |->
           [k \in 1..Len(parts[c]) |->
               Attach(parts[c][k], asField,
                      bucket(String(Field(parts[c][k], leftField))))]])

\* native.batchSetParallel(tuples): the tuples are prepared in chunks and
\* written under the one write lock in the order of the list (section 5);
\* the first write that fails ends the call
RECURSIVE native_setAll(_, _)
native_setAll(S, tuples) ==
    IF tuples = <<>> \/ S.err # "ok" THEN S
    ELSE native_setAll(native_set(S, Head(tuples)[1], Head(tuples)[2]), Tail(tuples))
native_batchSetParallel(S, tuples, chunk) ==
    native_setAll(S, Concat(Chunks(tuples, chunk)))

(***************************************************************************)
(* Schema validator (component C4): one schema, registered on prefix "u":  *)
(* {type: object, properties: {e: {type: number}}, required: [e]}, checked *)
(* against a document written below the prefix.                            *)
(***************************************************************************)
DocOk(v) == IsObj(v) /\ IdxField \in DOMAIN v.o /\ IsNum(v.o[IdxField])

SchemaRejects(p, v) ==
    /\ Len(p) >= 2
    /\ p[1] = "u"
    /\ \/ Len(p) = 2 /\ ~DocOk(v)
       \/ Len(p) = 3 /\ p[3] = IdxField /\ ~IsNum(v)

\* native.validatePath(path, value) throws
native_validatePath(n, p, v) == n.schema /\ SchemaRejects(p, v)


\* native.registerIndex(name, field): the sidecar of the instance's own path
\* is adopted when there is one.
native_registerIndex(S) ==
    [S EXCEPT !.n.reg = TRUE,
              !.n.index = IF S.n.target = "main" /\ S.d.idx.has
                          THEN S.d.idx.data ELSE EmptyIndex]

(***************************************************************************)
(* The JSONDatabase object.                                                *)
(***************************************************************************)
Cfg(dur, wal, enc, schema, idx, hook) ==
    [dur |-> dur, wal |-> wal, enc |-> enc, schema |-> schema, idx |-> idx,
     hook |-> hook]

JsInit ==
    [native |-> FALSE, lockMode |-> "none", saveTimeout |-> "null", saveDelay |-> 0,
     saveAge |-> 0, listeners |-> {},
     inTransaction |-> FALSE, frames |-> <<>>, pending |-> <<>>,
     subscriptions |-> <<>>, ttlMap |-> {}, ttlEntries |-> {}]

NoLast ==
    [proc |-> 0, op |-> "none", path |-> <<>>, val |-> Undefined, name |-> "",
     res |-> "ok", fx |-> {}, notes |-> <<>>, arg |-> <<>>]
Outcome(i, op, p, v, name, res, fx) ==
    [proc |-> i, op |-> op, path |-> p, val |-> v, name |-> name, res |-> res,
     fx |-> fx, notes |-> <<>>, arg |-> <<>>]

IsPrefix(p, q) == Len(p) <= Len(q) /\ SubSeq(q, 1, Len(p)) = p
Related(p, q) == IsPrefix(p, q) \/ IsPrefix(q, p)

\* History: the last successful set not yet overwritten (w), the pre-images
\* a transaction took (txPre, sp), the tree a rollbackTo produced (rb), the
\* last write of the transaction in progress (txw), a write of a transaction
\* that was rolled back since (ab) and, where track is set, the writes made
\* outside transactions or committed (hist) and those of the transaction in
\* progress (txs); for add calls that overlap, the number the path holds
\* when every one of them has added its amount (sum).
NoW ==
    [has |-> FALSE, proc |-> 0, path |-> <<>>, val |-> Undefined,
     hooked |-> FALSE, tx |-> FALSE, live |-> FALSE, acked |-> FALSE,
     saved |-> FALSE, crashed |-> FALSE]
NoAb == [has |-> FALSE, proc |-> 0, path |-> <<>>, val |-> Undefined, crashed |-> FALSE]
SpNames == {"s1"}
NoSp == [s \in SpNames |-> Undefined]
NoHist ==
    [w |-> NoW, txPre |-> Undefined, sp |-> NoSp, rb |-> Undefined,
     txw |-> NoAb, ab |-> NoAb, track |-> FALSE, hist |-> {}, txs |-> {},
     sum |-> NoAb, fns |-> {}]

\* the unsubscribe functions subscribe returned for a pattern and a callback:
\* how many were never called (live) and whether one was called (stale)
Fn(h, pat, cb) ==
    IF \E f \in h.fns : f.pat = pat /\ f.cb = cb
    THEN CHOOSE f \in h.fns : f.pat = pat /\ f.cb = cb
    ELSE [pat |-> pat, cb |-> cb, live |-> 0, stale |-> FALSE]
SetFn(h, f) ==
    [h EXCEPT !.fns = {x \in @ : ~(x.pat = f.pat /\ x.cb = f.cb)} \cup {f}]

Touch(h, p) ==
    [h EXCEPT !.w = IF Related(@.path, p) THEN NoW ELSE @,
              !.ab = IF Related(@.path, p) THEN NoAb ELSE @,
              !.sum = IF Related(@.path, p) THEN NoAb ELSE @,
              !.rb = Undefined]

\* the caller observes an error; nothing else happened
Fail(i, op, p, v, name, res, fx) ==
    /\ last' = Outcome(i, op, p, v, name, res, fx)
    /\ UNCHANGED <<cfg, js, nat, orphan, disk, g>>

Done(i, S, j, h, out) ==
    /\ nat' = [nat EXCEPT ![i] = S.n]
    /\ disk' = S.d
    /\ js' = [js EXCEPT ![i] = j]
    /\ g' = h
    /\ last' = out
    /\ UNCHANGED <<cfg, orphan>>

\* room in the WAL for k more records (and the marker that ends an open
\* transaction)
WalRoom(i, k) ==
    \/ nat[i].dur = "none"
    \/ Len(disk.wal[nat[i].target]) + k + (IF nat[i].tx # <<>> THEN 1 ELSE 0) <= MaxWal

\* triggerSave(): the timer is set anew, to five times autoSaveInterval "in
\* WAL mode" and to autoSaveInterval otherwise; saveAge is the time the
\* timer has been running, in ticks
triggerSave(j) ==
    [j EXCEPT !.saveTimeout = "armed", !.saveDelay = IF cfg.wal THEN 5 ELSE 1,
              !.saveAge = 0]

\* The clock of the timers: a tick is one half of autoSaveInterval.
TicksPerInterval == 2
SaveDue(j) == j.saveTimeout = "armed" /\ j.saveAge >= TicksPerInterval * j.saveDelay

saveInternal(S) ==
    IF cfg.enc
    THEN [S EXCEPT !.d.file = encrypt(native_get(S.n, <<>>))]
    ELSE native_save(S)

\* matchesPattern("u.*", path): one more segment below "u"
HookPattern(p) == Len(p) = 2 /\ p[1] = "u"
\* the before-hook returns the context with a field added to an object value
Rewrite(v) == IF IsObj(v) THEN Obj(Put(v.o, "h", Num(1))) ELSE v
\* a hook that matches every path
runMiddlewareAll(p, v) == Rewrite(v)
runMiddleware(p, v) == IF cfg.hook /\ HookPattern(p) THEN Rewrite(v) ELSE v

\* matchesPattern(pattern, path), on segments: the regular expression gets
\* [^.]* for every "*", those of a "**" included, so that "**" ends as
\* [^.]*[^.]* and stands for one segment like "*"; the path "" is one empty
\* segment
matchesPattern(pattern, path) ==
    LET q == IF path = <<>> THEN <<"">> ELSE path
    IN /\ Len(pattern) = Len(q)
       /\ \A k \in 1..Len(q) : pattern[k] \in {"*", "**"} \/ pattern[k] = q[k]

\* notifySubscribers(path, newValue, oldValue): the calls made, in the order
\* of the subscriptions map: pattern by pattern as the patterns were added,
\* and the callbacks of a pattern as they were added
notifySubscribers(subs, path, newValue, oldValue) ==
    LET hit == SelectSeq(subs, LAMBDA s : matchesPattern(s.pat, path))
    IN [k \in 1..Len(hit) |->
           [pat |-> hit[k].pat, cb |-> hit[k].cb, new |-> newValue, old |-> oldValue]]

\* the subscriptions map (a Map of Sets) as the sequence of its pairs in
\* iteration order: a callback the set of the pattern holds is not added
\* again, a new callback goes behind those of its pattern, a new pattern last
addCallback(subs, pathPattern, callback) ==
    LET same == {k \in 1..Len(subs) : subs[k].pat = pathPattern}
        at == IF same = {} THEN Len(subs)
              ELSE CHOOSE k \in same : \A m \in same : m <= k
    IN IF \E k \in same : subs[k].cb = callback THEN subs
       ELSE SubSeq(subs, 1, at) \o <<[pat |-> pathPattern, cb |-> callback]>>
                \o SubSeq(subs, at + 1, Len(subs))

\* subscribe(pathPattern, callback); the function it returns is one more
\* that was not called yet
subscribe(i, pathPattern, callback) ==
    /\ js[i].native
    /\ Fn(g, pathPattern, callback).live < MaxSubs
    /\ js' = [js EXCEPT ![i].subscriptions = addCallback(@, pathPattern, callback)]
    /\ g' = SetFn(g, [Fn(g, pathPattern, callback) EXCEPT !.live = @ + 1])
    /\ last' = Outcome(i, "subscribe", pathPattern, Undefined, callback, "ok", {})
    /\ UNCHANGED <<cfg, nat, orphan, disk>>

\* the function subscribe(pathPattern, callback) returned: the callback is
\* taken out of the set of the pattern, and the pattern out of the map when
\* its set is empty
removeCallback(subs, pathPattern, callback) ==
    SelectSeq(subs, LAMBDA s : ~(s.pat = pathPattern /\ s.cb = callback))

\* a call of a function subscribe returned, for the first time (again =
\* FALSE) or after it was called before
unsubscribe(i, pathPattern, callback, again) ==
    LET f == Fn(g, pathPattern, callback)
    IN /\ js[i].native
       /\ IF again THEN f.stale ELSE f.live > 0
       /\ js' = [js EXCEPT ![i].subscriptions =
                     removeCallback(@, pathPattern, callback)]
       /\ g' = SetFn(g, [f EXCEPT !.live = IF again THEN @ ELSE @ - 1,
                                  !.stale = TRUE])
       /\ last' = Outcome(i, "unsubscribe", pathPattern, IF again THEN Str("again") ELSE Str("first"),
                          callback,
                          "ok", {})
       /\ UNCHANGED <<cfg, nat, orphan, disk>>

\* parallelQuery(path, filters); chunk is the number of children the
\* executor gives one thread
parallelQuery(i, path, filters, chunk) ==
    /\ js[i].native
    /\ last' = [Outcome(i, "parallelQuery", path,
                        Arr(native_parallelQuery(nat[i], path, filters, chunk)),
                        "", "ok", {})
                    EXCEPT !.arg = filters]
    /\ UNCHANGED <<cfg, js, nat, orphan, disk, g>>

JoinConfig(to, localField, foreignField, as, chunk) ==
    [to |-> to, localField |-> localField, foreignField |-> foreignField,
     as |-> as, chunk |-> chunk]

\* parallelLookup(leftPath, rightPath, leftField, rightField, asField)
parallelLookup(i, leftPath, rightPath, leftField, rightField, asField, chunk) ==
    /\ js[i].native
    /\ last' = [Outcome(i, "parallelLookup", leftPath,
                        Arr(native_parallelLookup(nat[i], leftPath, rightPath,
                                leftField, rightField, asField, chunk)),
                        "", "ok", {})
                    EXCEPT !.arg = JoinConfig(rightPath, leftField, rightField,
                                              asField, chunk)]
    /\ UNCHANGED <<cfg, js, nat, orphan, disk, g>>

\* query(path).join({to, localField, foreignField, as}) and the items the
\* builder then holds
queryJoin(i, path, to, localField, foreignField, as) ==
    /\ js[i].native
    /\ last' = [Outcome(i, "join", path,
                        Arr(join(Values(native_get(nat[i], path)),
                                 native_get(nat[i], to), localField, foreignField, as)),
                        "", "ok", {})
                    EXCEPT !.arg = JoinConfig(to, localField, foreignField, as, 0)]
    /\ UNCHANGED <<cfg, js, nat, orphan, disk, g>>

get(n, p) ==
    LET val == native_get(n, p)
    IN IF val = Null \/ val = Undefined THEN Null ELSE val
has(n, p) == native_has(n, p)


\* a lookup that answers null for a name it does not know
findByIndexOrNull(i, indexName, v) ==
    /\ js[i].native
    /\ LET r == native_findIndexPaths(nat[i], indexName, v)
       IN Fail(i, "findByIndex", <<>>,
               IF r.paths # <<>> THEN get(nat[i], r.paths[1]) ELSE Null,
               indexName, "ok", {})

\* findByIndex(indexName, value): the document at the first path found, or
\* null when there is none; the result is in last.val
findByIndex(i, indexName, v) ==
    /\ js[i].native
    /\ LET r == native_findIndexPaths(nat[i], indexName, v)
       IN IF r.err # "ok"
          THEN Fail(i, "findByIndex", <<>>, Undefined, indexName, r.err, {})
          ELSE Fail(i, "findByIndex", <<>>,
                    IF r.paths # <<>> THEN get(nat[i], r.paths[1]) ELSE Null,
                    indexName, "ok", {})

Snapshot(file) == IF file.kind = "plain" THEN file.data ELSE EmptyObj

SetOp(path, value) == [path |-> path, value |-> value]
Reversed(q) == [k \in 1..Len(q) |-> q[Len(q) + 1 - k]]

RECURSIVE TouchAll(_, _)
TouchAll(h, operations) ==
    IF operations = <<>> THEN h
    ELSE TouchAll(Touch(h, Head(operations).path), Tail(operations))

\* batchSetParallel(operations) with the tuples handed over as given
batchSetParallelOf(i, operations, tuples, chunk) ==
    LET S == native_batchSetParallel(Bundle(nat[i], disk), tuples, chunk)
    IN /\ js[i].native
       /\ WalRoom(i, Len(operations))
       /\ Done(i, [S EXCEPT !.err = "ok"], triggerSave(js[i]), TouchAll(g, operations),
               [Outcome(i, "batchSetParallel", <<>>,
                        Num(IF S.err = "ok" THEN Len(tuples) ELSE 0), "", S.err,
                        {"native", "timer", "batch"})
                   EXCEPT !.arg = [operations |-> operations, chunk |-> chunk]])

\* a batch that hands the tuples over last first
batchSetParallelReversed(i, operations, chunk) ==
    batchSetParallelOf(i, operations,
        Reversed([k \in 1..Len(operations) |->
                     <<operations[k].path, operations[k].value>>]), chunk)

\* batchSetParallel(operations): the tuples in the order of the list, one
\* native call, the save timer, the 'batch' event and the result
batchSetParallel(i, operations, chunk) ==
    batchSetParallelOf(i, operations,
        [k \in 1..Len(operations) |-> <<operations[k].path, operations[k].value>>],
        chunk)

\* get(path) and has(path) as calls of their own: the value is taken from the
\* tree at once, nothing is changed and nothing is waited for
Bool(b) == [b |-> b]
\* a read that waits until no writer is under way
readWaits(i, op, p) ==
    /\ js[i].native /\ js[i].pending = <<>> /\ ~js[i].inTransaction
    /\ op \in {"get", "has"}
    /\ last' = Outcome(i, op, p,
                       IF op = "get" THEN get(nat[i], p) ELSE Bool(has(nat[i], p)),
                       "", "ok", {})
    /\ UNCHANGED <<cfg, js, nat, orphan, disk, g>>
read(i, op, p) ==
    /\ js[i].native
    /\ op \in {"get", "has"}
    /\ last' = Outcome(i, op, p,
                       IF op = "get" THEN get(nat[i], p) ELSE Bool(has(nat[i], p)),
                       "", "ok", {})
    /\ UNCHANGED <<cfg, js, nat, orphan, disk, g>>

\* the constructor's options: durability and lockMode as given ("unset" when
\* they are not), else what the wal flag stands for
Durability(durability, wal) ==
    IF durability # "unset" THEN durability ELSE IF wal THEN "batched" ELSE "none"
LockMode(lockMode, wal) ==
    IF lockMode # "unset" THEN lockMode ELSE IF wal THEN "exclusive" ELSE "none"

\* native.walStatus().enabled: whether the engine keeps a log
native_walStatus(n) == n.dur # "none"

\* walStatus()
walStatus(i) ==
    /\ js[i].native
    /\ last' = Outcome(i, "walStatus", <<>>, Bool(native_walStatus(nat[i])), "", "ok", {})
    /\ UNCHANGED <<cfg, js, nat, orphan, disk, g>>

\* whether loadData goes through the decrypted temporary file
ViaTemp(d) == cfg.enc /\ d.file.kind # "none" /\ CanDecrypt(d.file)

\* the engine and the files the constructor leaves behind: new NativeDb,
\* loadData, registerIndex and the rebuild of a missing index
loadData(lockMode, d) ==
    LET first == [newWithOptions(LockMode(lockMode, cfg.wal),
                                 Durability(cfg.dur, cfg.wal))
                      EXCEPT !.schema = cfg.schema]
        S0 == Bundle(IF ViaTemp(d) THEN NativeDb("tmp", cfg.wal) ELSE first, d)
        S1 == native_load(S0, IF ViaTemp(d) THEN decrypt(d.file)
                              ELSE Snapshot(d.file))
    IN IF ~cfg.idx THEN S1
       ELSE IF d.idx.has THEN native_registerIndex(S1)
       ELSE [S1 EXCEPT !.n = rebuildIndexByName(native_registerIndex(S1).n)]

\* new JSONDatabase(filePath, {lockMode, ...cfg}): constructor and loadData;
\* a log that had to be cut is reported ("wal:corrupt")
open(i, lockMode) ==
    /\ ~js[i].native
    /\ disk.file.kind = "enc" => cfg.enc
    /\ LET lm == LockMode(lockMode, cfg.wal)
       IN IF ~CanLock(lm)
       THEN Fail(i, "open", <<>>, Undefined, lm, "LockError", {})
       ELSE LET viaTemp == ViaTemp(disk)
                S2 == loadData(lm, disk)
            IN /\ nat' = [nat EXCEPT ![i] = S2.n]
               /\ disk' = S2.d
               /\ js' = [js EXCEPT ![i] = [JsInit EXCEPT !.native = TRUE,
                                                         !.lockMode = lm]]
               /\ orphan' = [orphan EXCEPT ![i] = IF viaTemp THEN lm ELSE @]
               /\ last' = Outcome(i, "open", <<>>, Undefined, lm, "ok",
                                  IF S2.n.dur # "none"
                                     /\ WellFormed(disk.wal[S2.n.target])
                                            # disk.wal[S2.n.target]
                                  THEN {"wal:corrupt"} ELSE {})
               /\ g' = [g EXCEPT !.rb = Undefined]
               /\ UNCHANGED cfg

\* the garbage collector finalizes the NativeDb instance loadData replaced
finalize(i) ==
    /\ orphan[i] # "none"
    /\ orphan' = [orphan EXCEPT ![i] = "none"]
    /\ last' = Outcome(i, "finalize", <<>>, Undefined, "", "ok", {})
    /\ UNCHANGED <<cfg, js, nat, disk, g>>

save(i) ==
    /\ js[i].native
    /\ LET S == saveInternal(Bundle(nat[i], disk))
       IN Done(i, S, [js[i] EXCEPT !.saveTimeout = "null"],
               [g EXCEPT !.w.saved = @ \/ (g.w.has /\ g.w.live /\ ~g.w.tx)],
               Outcome(i, "save", <<>>, Undefined, "", "ok", {}))

\* the auto-save timer fires
autoSave(i) ==
    /\ js[i].native
    /\ js[i].saveTimeout = "armed"
    /\ js[i].pending = <<>>
    /\ LET S == saveInternal(Bundle(nat[i], disk))
       IN Done(i, S, [js[i] EXCEPT !.saveTimeout = "fired"], g,
               Outcome(i, "autoSave", <<>>, Undefined, "", "ok", {}))

\* half an autoSaveInterval passes while the auto-save timer runs
tick(i) ==
    /\ js[i].saveTimeout = "armed"
    /\ ~SaveDue(js[i])
    /\ js' = [js EXCEPT ![i].saveAge = @ + 1]
    /\ last' = Outcome(i, "tick", <<>>, Undefined, "", "ok", {})
    /\ UNCHANGED <<cfg, nat, orphan, disk, g>>

\* the auto-save timer fires when its delay has passed
autoSaveDue(i) == SaveDue(js[i]) /\ autoSave(i)

sync(i) ==
    /\ js[i].native
    /\ LET S == native_sync(Bundle(nat[i], disk))
       IN Done(i, S, js[i],
               [g EXCEPT !.w.acked = @ \/ (g.w.has /\ g.w.live /\ ~g.w.tx
                                            /\ cfg.dur \in {"batched", "sync"})],
               Outcome(i, "sync", <<>>, Undefined, "", "ok", {}))

close(i) ==
    /\ js[i].native
    /\ LET S1 == saveInternal(Bundle(nat[i], disk))
           S2 == native_close(S1)
       IN Done(i, S2, [JsInit EXCEPT !.ttlEntries = js[i].ttlEntries],
               [g EXCEPT !.w.live = FALSE, !.rb = Undefined, !.sum = NoAb, !.fns = {}],
               Outcome(i, "close", <<>>, Undefined, "", "ok", {}))

\* close() up to its await: the TTL timers are cleared, save() has cleared
\* the auto-save timer and saved, and the rest of close is queued behind the
\* calls already waiting
closeCall(i) ==
    /\ js[i].native
    /\ Len(js[i].pending) < MaxCalls
    /\ \A k \in 1..Len(js[i].pending) : js[i].pending[k].op # "close"
    /\ LET S == saveInternal(Bundle(nat[i], disk))
       IN Done(i, S,
               [js[i] EXCEPT !.ttlMap = {}, !.saveTimeout = "null",
                             !.pending = Append(@, [op |-> "close", path |-> <<>>,
                                                    arg |-> Undefined, val |-> Undefined])],
               [g EXCEPT !.w.saved = @ \/ (g.w.has /\ g.w.live /\ ~g.w.tx)],
               Outcome(i, "call", <<>>, Undefined, "close", "ok", {}))

\* the process dies: memory and locks are lost, and the WAL keeps its
\* fsynced records and any prefix of the rest
crashTo(i, w) ==
    /\ js[i].native
    /\ disk' = [disk EXCEPT !.wal[nat[i].target] = w]
    /\ nat' = [nat EXCEPT ![i] = NatNone]
    /\ js' = [js EXCEPT ![i] = JsInit]
    /\ orphan' = [orphan EXCEPT ![i] = "none"]
    /\ g' = [g EXCEPT !.w.live = FALSE, !.w.saved = FALSE,
                      !.w.crashed = g.w.has, !.ab.crashed = g.ab.has,
                      !.rb = Undefined, !.sum = NoAb, !.fns = {}]
    /\ last' = Outcome(i, "crash", <<>>, Undefined, "", "ok", {})
    /\ UNCHANGED cfg

\* the process is killed: the log keeps the records that were synced and any
\* number of those that follow
crash(i) ==
    \E keep \in disk.synced[nat[i].target]..Len(disk.wal[nat[i].target]) :
        crashTo(i, SubSeq(disk.wal[nat[i].target], 1, keep))

\* the process is killed while a record that was not synced is half
\* written: the record is unreadable, what the log holds behind it stays
crashTorn(i) ==
    \E k \in (disk.synced[nat[i].target] + 1)..Len(disk.wal[nat[i].target]) :
        crashTo(i, [disk.wal[nat[i].target] EXCEPT ![k] = Torn])

\* a set that validates after it has written
setValidatesLast(i, p, v) ==
    /\ js[i].native
    /\ WalRoom(i, 1)
    /\ LET S1 == native_set(Bundle(nat[i], disk), p, v)
       IN IF native_validatePath(nat[i], p, v) /\ S1.err = "ok"
          THEN Done(i, S1, triggerSave(js[i]), Touch(g, p),
                    Outcome(i, "set", p, v, "", "ValidationError", {"native", "timer"}))
          ELSE Fail(i, "set", p, v, "", "PathError", {})

\* the body of set, run for the caller op (set itself, or add, pull and
\* setWithTTL, which call this.set); j is the state of the object around a
\* set that returns and jf the one around a set that throws
setBy(i, op, p, v, j, jf) ==
    LET hooked == cfg.hook /\ HookPattern(p)
        value == runMiddleware(p, v)
        S1 == native_set(Bundle(nat[i], disk), p, value)
        n2 == updateIndicesForPath(S1.n, cfg.idx, p, value, FALSE)
        inTx == nat[i].tx # <<>>
        w == [has |-> TRUE, proc |-> i, path |-> p, val |-> v,
              hooked |-> hooked, tx |-> inTx, live |-> TRUE,
              acked |-> cfg.dur = "sync" /\ ~inTx, saved |-> FALSE,
              crashed |-> FALSE]
        txw == [has |-> TRUE, proc |-> i, path |-> p, val |-> value,
                crashed |-> FALSE]
    IN IF native_validatePath(nat[i], p, v)
       THEN Done(i, Bundle(nat[i], disk), jf, g,
                 Outcome(i, op, p, v, "", "ValidationError", {}))
       ELSE IF S1.err # "ok"
       THEN Done(i, Bundle(nat[i], disk), jf, g,
                 Outcome(i, op, p, v, "", S1.err, IF hooked THEN {"before"} ELSE {}))
       ELSE Done(i, [S1 EXCEPT !.n = n2], triggerSave(j),
                 [Touch(g, p) EXCEPT
                     !.w = w,
                     !.sum = IF op = "add" THEN g.sum ELSE @,
                     !.txw = IF inTx THEN txw ELSE @,
                     !.txs = IF inTx /\ g.track THEN @ \cup {<<p, value>>} ELSE @,
                     !.hist = IF ~inTx /\ g.track THEN @ \cup {<<p, value>>} ELSE @],
                 [Outcome(i, op, p, v, "", "ok",
                          {"native", "timer", "notify"}
                              \cup (IF hooked THEN {"before", "after"} ELSE {})
                              \cup (IF n2 # S1.n THEN {"index"} ELSE {}))
                     EXCEPT !.notes = notifySubscribers(j.subscriptions, p, value,
                                                        native_get(nat[i], p))])

set(i, p, v) ==
    /\ js[i].native
    /\ WalRoom(i, 1)
    /\ setBy(i, "set", p, v, js[i], js[i])

\* The subscriber "w" is a callback that writes: (value) => { db.set("x", 1) }.
\* set has no await, so the call runs to its end inside the callback: the
\* engine is written, the timer set, the subscribers of "x" are notified,
\* and only then does the callback return.  The subscriber "t" is a callback
\* that throws: notifySubscribers catches the error and emits 'error', and
\* emit of the EventEmitter throws the error itself when 'error' has no
\* listener.  B = [S, j, h, notes, err, events] is the engine, the object,
\* the history, the calls made so far, each call with the path of the write
\* it reports, the error that left the loop and the events emitted.  The
\* callbacks a write from a callback reaches neither write nor throw.
InnerPath == <<"x">>
InnerVal == Num(1)
WithPath(notes, p) ==
    [k \in 1..Len(notes) |->
        [pat |-> notes[k].pat, cb |-> notes[k].cb, new |-> notes[k].new,
         old |-> notes[k].old, path |-> p]]

\* the set a callback issues; a set that throws rejects the promise the
\* callback drops
setFromCallback(B, p, v) ==
    LET value == runMiddleware(p, v)
        S1 == native_set(B.S, p, value)
    IN IF native_validatePath(B.S.n, p, v) \/ S1.err # "ok" THEN B
       ELSE [B EXCEPT
               !.S = [S1 EXCEPT !.n = updateIndicesForPath(S1.n, cfg.idx, p, value, FALSE)],
               !.j = triggerSave(B.j),
               !.h = Touch(B.h, p),
               !.notes = @ \o WithPath(notifySubscribers(B.j.subscriptions, p, value,
                                                         native_get(B.S.n, p)), p)]

\* the loop of notifySubscribers over the calls to make, from the k-th on
RECURSIVE deliver(_, _, _)
deliver(B, hits, k) ==
    IF k > Len(hits) \/ B.err # "ok" THEN B
    ELSE LET B1 == [B EXCEPT !.notes = Append(@, hits[k])]
         IN deliver(CASE hits[k].cb = "w" -> setFromCallback(B1, InnerPath, InnerVal)
                      [] hits[k].cb = "t" /\ "error" \in B.j.listeners ->
                             [B1 EXCEPT !.events = @ \cup {"error"}]
                      [] hits[k].cb = "t" -> [B1 EXCEPT !.err = "Error"]
                      [] OTHER -> B1,
                    hits, k + 1)

\* set(path, value) with subscribers that may write or throw; 'change' is
\* emitted when the loop over the subscribers has come to its end
setReentrant(i, p, v) ==
    /\ js[i].native
    /\ WalRoom(i, 1 + Len(js[i].subscriptions))
    /\ LET value == runMiddleware(p, v)
           S1 == native_set(Bundle(nat[i], disk), p, value)
           n2 == updateIndicesForPath(S1.n, cfg.idx, p, value, FALSE)
           hits == WithPath(notifySubscribers(js[i].subscriptions, p, value,
                                              native_get(nat[i], p)), p)
           B == deliver([S |-> [S1 EXCEPT !.n = n2], j |-> triggerSave(js[i]),
                         h |-> Touch(g, p), notes |-> <<>>, err |-> "ok",
                         events |-> {}], hits, 1)
       IN IF native_validatePath(nat[i], p, v)
          THEN Fail(i, "set", p, v, "", "ValidationError", {})
          ELSE IF S1.err # "ok" THEN Fail(i, "set", p, v, "", S1.err, {})
          ELSE Done(i, B.S, B.j, B.h,
                    [Outcome(i, "set", p, v, "", B.err,
                             {"native", "timer", "notify"} \cup B.events
                                 \cup (IF B.err = "ok" THEN {"change"} ELSE {}))
                        EXCEPT !.notes = B.notes])

\* db.on(event, listener)
on(i, event) ==
    /\ js[i].native
    /\ js' = [js EXCEPT ![i].listeners = @ \cup {event}]
    /\ last' = Outcome(i, "on", <<>>, Undefined, event, "ok", {})
    /\ UNCHANGED <<cfg, nat, orphan, disk, g>>

\* a clear that writes the root back as it is
clearKeeps(i) ==
    /\ js[i].native
    /\ WalRoom(i, 1)
    /\ setBy(i, "clear", <<>>, native_get(nat[i], <<>>), js[i], js[i])

\* clear(): await this.set('', {})
clear(i) ==
    /\ js[i].native
    /\ WalRoom(i, 1)
    /\ setBy(i, "clear", <<>>, EmptyObj, js[i], js[i])

\* the body of delete, run for the caller op (delete itself, or the timer of
\* a TTL, which emits 'ttl:expired' when the delete has returned) with j the
\* state of the object around it; clearTTL(path) is part of it
deleteBy(i, op, p, j) ==
    LET oldValue == native_get(nat[i], p)
        S1 == native_delete(Bundle(nat[i], disk), p)
        n2 == updateIndicesForPath(S1.n, cfg.idx, p, oldValue, TRUE)
    IN IF S1.err # "ok"
       THEN Done(i, Bundle(nat[i], disk), j, g,
                 Outcome(i, op, p, Undefined, "", S1.err, {}))
       ELSE Done(i, [S1 EXCEPT !.n = n2],
                 [triggerSave(j) EXCEPT !.ttlMap = @ \ {p}, !.ttlEntries = @ \ {p}],
                 Touch(g, p),
                 [Outcome(i, op, p, Undefined, "", "ok",
                          {"native", "timer", "notify"}
                              \cup (IF op = "ttlFire" THEN {"ttl:expired"} ELSE {}))
                     EXCEPT !.notes = notifySubscribers(j.subscriptions, p,
                                                        Undefined, oldValue)])

delete(i, p) ==
    /\ js[i].native
    /\ WalRoom(i, 1)
    /\ deleteBy(i, "delete", p, js[i])

\* setWithTTL(path, value, ttlSeconds) up to its await: the set
setWithTTL(i, p, v) ==
    /\ js[i].native
    /\ WalRoom(i, 1)
    /\ Len(js[i].pending) < MaxCalls
    /\ setBy(i, "setWithTTL", p, v,
             [js[i] EXCEPT !.pending = Append(@, [op |-> "setTTL", path |-> p,
                                                  arg |-> Undefined, val |-> Undefined])],
             js[i])

clearTTL(i, p) ==
    /\ js[i].native
    /\ js' = [js EXCEPT ![i].ttlMap = @ \ {p}, ![i].ttlEntries = @ \ {p}]
    /\ last' = Outcome(i, "clearTTL", p, Undefined, "", "ok", {})
    /\ UNCHANGED <<cfg, nat, orphan, disk, g>>

\* a timer that forgets the path and deletes nothing
ttlFireNoDelete(i, p) ==
    /\ js[i].native
    /\ p \in js[i].ttlMap
    /\ Done(i, Bundle(nat[i], disk),
            [js[i] EXCEPT !.ttlMap = @ \ {p}, !.ttlEntries = @ \ {p}], g,
            Outcome(i, "ttlFire", p, Undefined, "", "ok", {"ttl:expired"}))

\* the timer of setTTL fires, when no continuation is queued: the entries of
\* the path go, then delete(path), then 'ttl:expired'
ttlFire(i, p) ==
    /\ js[i].native
    /\ p \in js[i].ttlMap
    /\ js[i].pending = <<>>
    /\ WalRoom(i, 1)
    /\ deleteBy(i, "ttlFire", p,
                [js[i] EXCEPT !.ttlMap = @ \ {p}, !.ttlEntries = @ \ {p}])

\* the loop of push(path, ...items): native.push for each item in turn, and
\* the first error ends it
RECURSIVE pushLoop(_, _, _)
pushLoop(S, p, items) ==
    IF items = <<>> \/ S.err # "ok" THEN S
    ELSE pushLoop(native_push(S, p, Head(items)), p, Tail(items))

\* push(path, ...items)
push(i, p, items) ==
    /\ js[i].native
    /\ WalRoom(i, Len(items))
    /\ Len(IF IsArr(native_get(nat[i], p)) THEN native_get(nat[i], p).a ELSE <<>>)
           + Len(items) <= MaxArr
    /\ LET S1 == pushLoop(Bundle(nat[i], disk), p, items)
       IN IF S1.err # "ok"
          THEN Fail(i, "push", p, Arr(items), "", S1.err, {})
          ELSE Done(i, S1, triggerSave(js[i]), Touch(g, p),
                    [Outcome(i, "push", p, Arr(items), "", "ok",
                             {"native", "timer", "notify"})
                        EXCEPT !.notes = notifySubscribers(js[i].subscriptions, p,
                                                           native_get(S1.n, p),
                                                           native_get(nat[i], p))])

\* add(path, amount) up to its await: get(path, 0) has read the value, and
\* the rest of the call is queued behind the calls already waiting
add(i, p, amount) ==
    /\ js[i].native
    /\ Len(js[i].pending) < MaxCalls
    /\ LET val == IF get(nat[i], p) = Null THEN Num(0) ELSE get(nat[i], p)
       IN /\ IsNum(val) => (val.n + amount \in 0..MaxNum)
          /\ js' = [js EXCEPT ![i].pending =
                        Append(@, [op |-> "add", path |-> p, arg |-> Num(amount),
                                   val |-> val])]
          /\ last' = Outcome(i, "call", p, Num(amount), "add", "ok", {})
          /\ g' = [g EXCEPT !.sum =
                      IF ~IsNum(val) THEN NoAb
                      ELSE IF js[i].pending = <<>>
                      THEN [NoAb EXCEPT !.has = TRUE, !.proc = i, !.path = p,
                                        !.val = Num(val.n + amount)]
                      ELSE IF @.has /\ @.proc = i /\ @.path = p
                                 /\ @.val.n + amount \in -MaxNum..MaxNum
                      THEN [@ EXCEPT !.val = Num(@.n + amount)]
                      ELSE NoAb]
          /\ UNCHANGED <<cfg, nat, orphan, disk>>

subtract(i, p, amount) == add(i, p, -amount)

\* Object.keys(v) of an object or an array
Keys(v) ==
    IF IsObj(v) THEN DOMAIN v.o ELSE {k \in {"0", "1", "2"} : IndexOf(k) \in 1..Len(v.a)}

\* deepEqual(a, b): === for primitives, and for objects and arrays alike the
\* same number of keys with deepEqual values under every key of a
RECURSIVE deepEqual(_, _)
deepEqual(a, b) ==
    IF ~(IsObj(a) \/ IsArr(a)) /\ a = b THEN TRUE
    ELSE IF ~(IsObj(a) \/ IsArr(a)) \/ ~(IsObj(b) \/ IsArr(b)) THEN FALSE
    ELSE /\ Cardinality(Keys(a)) = Cardinality(Keys(b))
         /\ \A k \in Keys(a) :
                k \in Keys(b) /\ deepEqual(native_get_at(a, <<k>>), native_get_at(b, <<k>>))

\* QueryBuilder.exec() of query(path).where(field).eq(value) on the items
\* the builder holds: with an index on (path, field) the items are fetched
\* anew from the paths the index files under the value, those that are null
\* are dropped, and the filter of eq is run on them; without one the filter
\* is run on the items of the builder
exec(n, idxOn, path, items, field, value) ==
    LET paths == native_findIndexPaths(n, "email", value).paths
        indexedItems == [k \in 1..Len(paths) |-> get(n, paths[k])]
        result == IF idxOn /\ path = IdxPath /\ field = IdxField
                  THEN SelectSeq(indexedItems, LAMBDA x : x # Null)
                  ELSE items
    IN SelectSeq(result, LAMBDA item : deepEqual(Field(item, field), value))

\* query(path).where(field).eq(value).exec(), after join({to: "t",
\* localField: field, foreignField: field, as: "h"}) when joined
queryExec(i, path, field, value, joined) ==
    /\ js[i].native
    /\ LET data == Values(native_get(nat[i], path))
           items == IF joined
                    THEN join(data, native_get(nat[i], <<"t">>), field, field, "h")
                    ELSE data
       IN last' = [Outcome(i, "exec", path,
                           Arr(exec(nat[i], cfg.idx, path, items, field, value)),
                           "", "ok", {})
                       EXCEPT !.arg = [items |-> items, field |-> field,
                                       value |-> value, joined |-> joined]]
    /\ UNCHANGED <<cfg, js, nat, orphan, disk, g>>

\* pull(path, ...items) up to its await: get(path) has read the value
pull(i, p, items) ==
    /\ js[i].native
    /\ Len(js[i].pending) < MaxCalls
    /\ js' = [js EXCEPT ![i].pending =
                  Append(@, [op |-> "pull", path |-> p, arg |-> Arr(items),
                             val |-> get(nat[i], p)])]
    /\ last' = Outcome(i, "call", p, Arr(items), "pull", "ok", {})
    /\ UNCHANGED <<cfg, nat, orphan, disk, g>>

\* a continuation that returns the sum without storing it
settleNoStore(i) ==
    /\ js[i].native
    /\ js[i].pending # <<>>
    /\ LET c == Head(js[i].pending)
       IN Done(i, Bundle(nat[i], disk), [js[i] EXCEPT !.pending = Tail(@)], g,
               Outcome(i, "add", c.path,
                       IF IsNum(c.val) THEN Num(c.val.n + c.arg.n) ELSE c.val,
                       "", "ok", {}))

\* the oldest waiting call runs to its end: add stores val + amount with set
\* when val is a number, and returns val as it is otherwise; pull stores the
\* array without the elements deepEqual to an item, and does nothing when
\* what it read is no array; setWithTTL runs setTTL, which replaces the timer
\* and the expiry entry of the path; close clears the subscriptions, closes
\* the engine and drops it
settle(i) ==
    /\ js[i].native
    /\ js[i].pending # <<>>
    /\ WalRoom(i, 1)
    /\ LET c == Head(js[i].pending)
           j == [js[i] EXCEPT !.pending = Tail(@)]
           newArr == SelectSeq(c.val.a,
                               LAMBDA x : ~\E k \in 1..Len(c.arg.a) :
                                              deepEqual(x, c.arg.a[k]))
       IN IF c.op = "close"
          THEN Done(i, native_close(Bundle(nat[i], disk)),
                    [j EXCEPT !.native = FALSE, !.lockMode = "none",
                              !.subscriptions = <<>>, !.listeners = {},
                              !.inTransaction = FALSE, !.frames = <<>>],
                    [g EXCEPT !.w.live = FALSE, !.rb = Undefined, !.sum = NoAb,
                              !.fns = {}],
                    Outcome(i, "close", <<>>, Undefined, "", "ok", {}))
          ELSE IF c.op = "add" /\ IsNum(c.val)
          THEN setBy(i, "add", c.path, Num(c.val.n + c.arg.n), j, j)
          ELSE IF c.op = "pull" /\ IsArr(c.val)
          THEN setBy(i, "pull", c.path, Arr(newArr), j, j)
          ELSE IF c.op = "setTTL"
          THEN Done(i, Bundle(nat[i], disk),
                    [j EXCEPT !.ttlEntries = @ \cup {c.path}, !.ttlMap = @ \cup {c.path}],
                    g, Outcome(i, "setTTL", c.path, Undefined, "", "ok", {}))
          ELSE Done(i, Bundle(nat[i], disk), j, g,
                    Outcome(i, c.op, c.path, c.val, "", "ok", {}))

\* val + amount of JavaScript: a sum of numbers, and a string otherwise
JsPlus(val, amount) ==
    IF IsNum(val) THEN Num(val.n + amount) ELSE Str("concatenation")

BatchOp(type, p, v) == [type |-> type, path |-> p, value |-> v]

\* one turn of the loop of batch
batchStep(S, op) ==
    LET got == native_get(S.n, op.path)
        val == IF got = Null \/ got = Undefined THEN Num(0) ELSE got
        newVal == JsPlus(val, IF op.type = "add" THEN op.value.n ELSE 0 - op.value.n)
        S1 == CASE op.type = "set" -> native_set(S, op.path, op.value)
                [] op.type = "delete" -> native_delete(S, op.path)
                [] op.type = "push" -> native_push(S, op.path, op.value)
                [] OTHER -> native_set(S, op.path, newVal)
        updated == CASE op.type = "set" -> op.value
                     [] op.type = "delete" -> Undefined
                     [] OTHER -> newVal
    IN IF S.err # "ok" \/ S1.err # "ok" \/ op.type = "push" THEN S1
       ELSE [S1 EXCEPT !.n = updateIndicesForPath(@, cfg.idx, op.path, updated,
                                                   op.type = "delete")]

RECURSIVE batchLoop(_, _)
batchLoop(S, ops) ==
    IF ops = <<>> THEN S ELSE batchLoop(batchStep(S, Head(ops)), Tail(ops))

\* the numbers and arrays the ops build stay within the bounds
BatchFits(n, ops) ==
    \A j \in 1..Len(ops) :
        LET old == native_get(n, ops[j].path)
        IN /\ (ops[j].type = "add" /\ IsNum(old)) => old.n + Len(ops) <= MaxNum
           /\ (ops[j].type = "subtract" /\ IsNum(old)) => old.n >= Len(ops)
           /\ (ops[j].type = "push" /\ IsArr(old)) => Len(old.a) + Len(ops) <= MaxArr

batch(i, ops) ==
    /\ js[i].native
    /\ WalRoom(i, Len(ops))
    /\ BatchFits(nat[i], ops)
    /\ LET S == batchLoop(Bundle(nat[i], disk), ops)
           fx == IF S.n # nat[i] THEN {"native"} ELSE {}
           h == IF S.n # nat[i] THEN Touch(g, <<>>) ELSE g
       IN IF S.err # "ok"
          THEN Done(i, [S EXCEPT !.err = "ok"], js[i], h,
                    Outcome(i, "batch", <<>>, Arr(ops), "", S.err, fx))
          ELSE Done(i, S, triggerSave(js[i]), h,
                    Outcome(i, "batch", <<>>, Arr(ops), "", "ok", fx \cup {"timer"}))

\* what one awaited call of set, delete, push, add or subtract with the
\* arguments of op leaves behind
single(S, op) ==
    LET got == get(S.n, op.path)
        val == IF got = Null THEN Num(0) ELSE got
        amount == IF op.type = "add" THEN op.value.n ELSE 0 - op.value.n
        v == IF op.type = "set" THEN op.value ELSE Num(val.n + amount)
        value == runMiddleware(op.path, v)
        S1 == native_set(S, op.path, value)
        S2 == native_delete(S, op.path)
    IN CASE S.err # "ok" -> S
         [] op.type = "push" -> native_push(S, op.path, op.value)
         [] op.type = "delete" ->
                IF S2.err # "ok" THEN S2
                ELSE [S2 EXCEPT !.n = updateIndicesForPath(@, cfg.idx, op.path,
                                                           native_get(S.n, op.path), TRUE)]
         [] op.type \in {"add", "subtract"} /\ ~IsNum(val) -> S
         [] OTHER ->
                IF native_validatePath(S.n, op.path, v) THEN Throw(S, "ValidationError")
                ELSE IF S1.err # "ok" THEN S1
                ELSE [S1 EXCEPT !.n = updateIndicesForPath(@, cfg.idx, op.path, value, FALSE)]

RECURSIVE singles(_, _)
singles(S, ops) ==
    IF ops = <<>> THEN S ELSE singles(single(S, Head(ops)), Tail(ops))

(***************************************************************************)
(* transaction(fn).  The calls in progress form a stack (frames): the      *)
(* first is the transaction, the calls made inside its fn are nested and   *)
(* run on a savepoint.  fn is any sequence of operations of the object,    *)
(* tx.savepoint and tx.rollbackTo included, that ends by returning or by   *)
(* throwing the error "E".                                                 *)
(***************************************************************************)
NestedName(k) == CASE k = 1 -> "nested_1" [] k = 2 -> "nested_2" [] OTHER -> "nested_3"

Frame(name, n) == [name |-> name, pre |-> n.tree]

\* transaction(fn) up to the call of fn
txBegin(i) ==
    /\ js[i].native
    /\ Len(nat[i].tx) <= MaxSavepoints
    /\ WalRoom(i, 1)
    /\ IF js[i].inTransaction
       THEN LET savepointName == NestedName(Len(js[i].frames))
                S == native_createSavepoint(Bundle(nat[i], disk), savepointName)
            IN IF S.err # "ok"
               THEN Fail(i, "txBegin", <<>>, Undefined, savepointName, S.err, {})
               ELSE Done(i, S,
                         [js[i] EXCEPT !.frames = Append(@, Frame(savepointName, nat[i]))],
                         g, Outcome(i, "txBegin", <<>>, Undefined, savepointName, "ok", {}))
       ELSE LET S == native_beginTransaction(Bundle(nat[i], disk))
            IN Done(i, S,
                    [js[i] EXCEPT !.inTransaction = TRUE,
                                  !.frames = <<Frame("top", nat[i])>>],
                    [g EXCEPT !.sp = NoSp, !.txw = NoAb, !.txs = {}],
                    Outcome(i, "txBegin", <<>>, Undefined, "top", "ok", {}))

\* tx.savepoint(name) called by fn
txSavepoint(i, name) ==
    /\ js[i].native
    /\ js[i].frames # <<>>
    /\ Len(nat[i].tx) <= MaxSavepoints
    /\ LET S == native_createSavepoint(Bundle(nat[i], disk), name)
       IN IF S.err # "ok"
          THEN Fail(i, "savepoint", <<>>, Undefined, name, S.err, {})
          ELSE Done(i, S, js[i],
                    [g EXCEPT !.sp[name] = nat[i].tree],
                    Outcome(i, "savepoint", <<>>, Undefined, name, "ok", {}))

\* a rollbackTo that forwards nothing to the native store
txRollbackToNothing(i, name) ==
    /\ js[i].native
    /\ js[i].frames # <<>>
    /\ Done(i, Bundle(nat[i], disk), js[i],
            [Touch(g, <<>>) EXCEPT !.rb = g.sp[name]],
            Outcome(i, "rollbackTo", <<>>, Undefined, name, "ok", {}))

\* tx.rollbackTo(name) called by fn
txRollbackTo(i, name) ==
    /\ js[i].native
    /\ js[i].frames # <<>>
    /\ WalRoom(i, 1)
    /\ LET S == native_rollbackToSavepoint(Bundle(nat[i], disk), name)
       IN IF S.err # "ok"
          THEN Fail(i, "rollbackTo", <<>>, Undefined, name, S.err, {})
          ELSE Done(i, S, js[i],
                    [Touch(g, <<>>) EXCEPT !.rb = g.sp[name]],
                    Outcome(i, "rollbackTo", <<>>, Undefined, name, "ok", {}))

\* fn returns: transaction(fn) commits (the outermost call) or just returns
txReturn(i) ==
    /\ js[i].native
    /\ js[i].frames # <<>>
    /\ IF Len(js[i].frames) > 1
       THEN Done(i, Bundle(nat[i], disk),
                 [js[i] EXCEPT !.frames = SubSeq(@, 1, Len(@) - 1)], g,
                 Outcome(i, "txReturn", <<>>, Undefined,
                         js[i].frames[Len(js[i].frames)].name, "ok", {}))
       ELSE LET S == native_commitTransaction(Bundle(nat[i], disk))
            IN Done(i, S,
                    [js[i] EXCEPT !.inTransaction = FALSE, !.frames = <<>>],
                    [g EXCEPT !.w.tx = FALSE,
                              !.w.acked = @ \/ (g.w.has /\ g.w.live /\ cfg.dur = "sync"),
                              !.txw = NoAb, !.sp = NoSp,
                              !.hist = @ \cup g.txs, !.txs = {}],
                    Outcome(i, "txReturn", <<>>, Undefined, "top", "ok", {}))

\* fn throws E: transaction(fn) rolls back and rethrows
txThrow(i) ==
    /\ js[i].native
    /\ js[i].frames # <<>>
    /\ LET fr == js[i].frames[Len(js[i].frames)]
           top == Len(js[i].frames) = 1
           S == IF top THEN native_rollbackTransaction(Bundle(nat[i], disk))
                ELSE native_rollbackToSavepoint(Bundle(nat[i], disk), fr.name)
           j == IF top THEN [js[i] EXCEPT !.inTransaction = FALSE, !.frames = <<>>]
                ELSE [js[i] EXCEPT !.frames = SubSeq(@, 1, Len(@) - 1)]
           aborted == /\ top /\ g.txw.has
                      /\ <<g.txw.path, g.txw.val>> \notin g.hist
                      /\ get([nat[i] EXCEPT !.tree = fr.pre], g.txw.path) # g.txw.val
       IN IF S.err # "ok"
          THEN Done(i, Bundle(nat[i], disk),
                    IF top THEN [js[i] EXCEPT !.frames = <<>>] ELSE j,
                    [g EXCEPT !.txPre = fr.pre],
                    Outcome(i, "txThrow", <<>>, Undefined, fr.name, S.err, {}))
          ELSE Done(i, S, j,
                    [Touch(g, <<>>) EXCEPT
                        !.txPre = fr.pre,
                        !.ab = IF aborted THEN g.txw ELSE NoAb,
                        !.txw = IF top THEN NoAb ELSE @,
                        !.txs = IF top THEN {} ELSE @,
                        !.sp = IF top THEN NoSp ELSE @],
                    Outcome(i, "txThrow", <<>>, Undefined, fr.name, "E", {}))

\* Transactions of independent callers.  js.frames holds the calls of
\* transaction(fn) whose fn is still running, in the order of the calls; fn
\* of the k-th of them returns (throws = FALSE) or throws E, whichever calls
\* were made after it: the first call to find inTransaction false commits or
\* rolls back and clears the flag, a call that found it true only rolls
\* back to its savepoint when fn throws.
txEnd(i, k, throws) ==
    /\ js[i].native
    /\ k \in 1..Len(js[i].frames)
    /\ WalRoom(i, 1)
    /\ LET fr == js[i].frames[k]
           first == fr.name = "top"
           S0 == Bundle(nat[i], disk)
           S == CASE first /\ ~throws -> native_commitTransaction(S0)
                  [] first /\ throws -> native_rollbackTransaction(S0)
                  [] ~first /\ throws -> native_rollbackToSavepoint(S0, fr.name)
                  [] OTHER -> S0
           rest == SubSeq(js[i].frames, 1, k - 1)
                       \o SubSeq(js[i].frames, k + 1, Len(js[i].frames))
           j == [js[i] EXCEPT !.frames = rest,
                              !.inTransaction = IF first /\ S.err = "ok" THEN FALSE ELSE @]
           out == Outcome(i, "txEnd", <<>>,
                          IF throws THEN Str("throw") ELSE Str("return"), fr.name,
                          IF S.err # "ok" THEN S.err ELSE IF throws THEN "E" ELSE "ok",
                          {})
       IN IF S.err # "ok" THEN Done(i, S0, j, g, out)
          ELSE Done(i, S, j, IF throws THEN Touch(g, <<>>) ELSE g, out)

\* a call of transaction(fn) by a caller outside every running fn
txCall(i) ==
    /\ js[i].native
    /\ Len(nat[i].tx) <= MaxSavepoints
    /\ Len(js[i].frames) <= MaxSavepoints
    /\ WalRoom(i, 1)
    /\ IF js[i].inTransaction
       THEN LET savepointName == NestedName(Len(js[i].frames))
                S == native_createSavepoint(Bundle(nat[i], disk), savepointName)
            IN IF S.err # "ok"
               THEN Fail(i, "txCall", <<>>, Undefined, savepointName, S.err, {})
               ELSE Done(i, S,
                         [js[i] EXCEPT !.frames = Append(@, Frame(savepointName, nat[i]))],
                         g, Outcome(i, "txCall", <<>>, Undefined, savepointName, "ok", {}))
       ELSE LET S == native_beginTransaction(Bundle(nat[i], disk))
            IN Done(i, S,
                    [js[i] EXCEPT !.inTransaction = TRUE,
                                  !.frames = Append(@, Frame("top", nat[i]))],
                    g, Outcome(i, "txCall", <<>>, Undefined, "top", "ok", {}))

(***************************************************************************)
(* Specifications.  Every behaviour fixes the options of the database and  *)
(* starts with no file on disk and no opener.                              *)
(***************************************************************************)
InitWith(cfgs, track) ==
    /\ cfg \in cfgs
    /\ js = [i \in Procs |-> JsInit]
    /\ nat = [i \in Procs |-> NatNone]
    /\ orphan = [i \in Procs |-> "none"]
    /\ disk = DiskInit
    /\ last = NoLast
    /\ g = [NoHist EXCEPT !.track = track]

Doc(n) == Obj1(IdxField, Num(n))

\* Engine operations of one opener without a WAL: schema, hooks, index and
\* encryption switched on or off.
CorePaths == {<<"x">>, <<"u", "a">>, <<"u", "a", "e">>}
CoreVals == {Num(1), Doc(2)}
CoreCfgs ==
    {Cfg("none", FALSE, enc, schema, schema, hook) :
        enc \in BOOLEAN, schema \in BOOLEAN, hook \in BOOLEAN}

Init == InitWith(CoreCfgs, FALSE)

Next ==
    \/ open(1, "none")
    \/ close(1)
    \/ save(1)
    \/ autoSave(1)
    \/ \E p \in CorePaths, v \in CoreVals : set(1, p, v)
    \/ \E p \in {<<"x">>, <<"u", "a">>} : delete(1, p)
    \/ push(1, <<"x">>, <<Num(2)>>)

Spec == Init /\ [][Next]_vars


\* Durability: one opener with a WAL that crashes and reopens, with and
\* without encryption.
DurWrites == {<<<<"x">>, Num(1)>>, <<<<"x">>, Obj1("y", Num(2))>>}
DurCfgs ==
    {Cfg("sync", FALSE, enc, FALSE, FALSE, FALSE) : enc \in BOOLEAN}
        \cup {Cfg("batched", TRUE, enc, FALSE, FALSE, FALSE) : enc \in BOOLEAN}

InitDur == InitWith(DurCfgs, FALSE)

NextDur ==
    \/ open(1, "exclusive")
    \/ finalize(1)
    \/ close(1)
    \/ crash(1)
    \/ crashTorn(1)
    \/ save(1)
    \/ sync(1)
    \/ \E w \in DurWrites : set(1, w[1], w[2])
    \/ delete(1, <<"x">>)

SpecDur == InitDur /\ [][NextDur]_vars

\* Transactions: one opener that runs transactions with savepoints, saves in
\* the middle of them, crashes and reopens.
TxWrites == {<<<<"x">>, Num(1)>>, <<<<"y">>, Num(2)>>}
TxCfgs ==
    {Cfg("none", FALSE, enc, FALSE, FALSE, FALSE) : enc \in BOOLEAN}
        \cup {Cfg("batched", TRUE, FALSE, FALSE, FALSE, FALSE)}

InitTx == InitWith(TxCfgs, TRUE)

NextTx ==
    \/ open(1, "none")
    \/ crash(1)
    \/ autoSave(1)
    \/ txBegin(1)
    \/ \E name \in SpNames : txSavepoint(1, name)
    \/ \E name \in SpNames : txRollbackTo(1, name)
    \/ txReturn(1)
    \/ txThrow(1)
    \/ \E w \in TxWrites : set(1, w[1], w[2])

SpecTx == InitTx /\ [][NextTx]_vars

\* Indexes and batches: one opener of a database with a WAL and the index on
\* "u", with and without hooks.
IdxWrites == {<<<<"u", "a">>, Doc(1)>>, <<<<"u", "a", "e">>, Num(2)>>}
BatchOps ==
    {BatchOp("set", <<"u", "b">>, Doc(1)), BatchOp("delete", <<"u", "b">>, Undefined),
     BatchOp("push", <<"x">>, Num(2)), BatchOp("add", <<"x">>, Num(1)),
     BatchOp("subtract", <<"x">>, Num(1))}
BatchSeqs ==
    {<<a>> : a \in BatchOps}
        \cup {<<BatchOp("add", <<"x">>, Num(1)), b>> : b \in BatchOps}
IdxCfgs == {Cfg("batched", TRUE, FALSE, FALSE, TRUE, hook) : hook \in BOOLEAN}

InitIdx == InitWith(IdxCfgs, FALSE)

NextIdx ==
    \/ open(1, "none")
    \/ close(1)
    \/ save(1)
    \/ \E w \in IdxWrites : set(1, w[1], w[2])
    \/ delete(1, <<"u", "a">>)
    \/ \E ops \in BatchSeqs : batch(1, ops)

SpecIdx == InitIdx /\ [][NextIdx]_vars

\* Locks: two openers of the same path, in exclusive and shared mode, with
\* and without encryption.
LockCfgs == {Cfg("batched", TRUE, enc, FALSE, FALSE, FALSE) : enc \in BOOLEAN}

InitLock == InitWith(LockCfgs, FALSE)

NextLock ==
    \E i \in Procs :
        \/ \E m \in {"exclusive", "shared"} : open(i, m)
        \/ close(i)
        \/ finalize(i)
        \/ save(i)
        \/ set(i, <<"x">>, Num(1))
        \/ delete(i, <<"x">>)
        \/ batch(i, <<BatchOp("set", <<"x">>, Num(2))>>)

SpecLock == InitLock /\ [][NextLock]_vars

\* Counters and arrays: one opener without a WAL working on the path "x".
\* Calls of add overlap; subtract and pull start when no call is waiting.
InitOps == InitWith({Cfg("none", FALSE, FALSE, FALSE, FALSE, FALSE)}, FALSE)

NextOps ==
    \/ open(1, "none")
    \/ \E v \in {Num(1), Str("s")} : set(1, <<"x">>, v)
    \/ delete(1, <<"x">>)
    \/ add(1, <<"x">>, 1)
    \/ js[1].pending = <<>> /\ subtract(1, <<"x">>, 1)
    \/ settle(1)
    \/ \E ops \in {<<BatchOp("add", <<"x">>, Num(1))>>,
                    <<BatchOp("subtract", <<"x">>, Num(1))>>,
                    <<BatchOp("push", <<"x">>, Num(2))>>,
                    <<BatchOp("set", <<"x">>, Num(1)), BatchOp("add", <<"x">>, Num(1))>>} :
          batch(1, ops)

SpecOps == InitOps /\ [][NextOps]_vars

NextArr ==
    \/ open(1, "none")
    \/ \E v \in {Num(1), Arr(<<Arr(<<>>), Num(1)>>)} : set(1, <<"x">>, v)
    \/ delete(1, <<"x">>)
    \/ \E a, b \in {Num(1), Num(2)} :
          \E items \in {<<a>>, <<a, b>>} : push(1, <<"x">>, items)
    \/ \E items \in {<<Num(1)>>, <<EmptyObj>>, <<Num(2), Num(1)>>} :
          js[1].pending = <<>> /\ pull(1, <<"x">>, items)
    \/ settle(1)
    \/ \E v \in {Num(1), Str("s"), Bool(TRUE), Null, Arr(<<Num(1)>>),
                  Obj1("y", Num(1))} : set(1, <<>>, v)
    \/ clear(1)

SpecArr == InitOps /\ [][NextArr]_vars

\* Lookups and observers: one opener without a WAL, with and without the
\* index "email" on "u".
InitSub ==
    InitWith({Cfg("none", FALSE, FALSE, FALSE, idx, FALSE) : idx \in BOOLEAN}, FALSE)

NextSub ==
    \/ open(1, "none")
    \/ close(1)
    \/ \E p \in {<<"u", "a">>, <<"u", "a", "e">>} : \E v \in {Doc(1), Num(2)} : set(1, p, v)
    \/ \E p \in {<<"u">>, <<"u", "a">>} : delete(1, p)
    \/ \E name \in {"email", "nope"} : \E v \in {Num(1), Num(2)} : findByIndex(1, name, v)
    \/ \E pat \in {<<"**">>, <<"u", "*">>} : subscribe(1, pat, "f")
    \/ push(1, <<"u", "t">>, <<Num(1)>>)

SpecSub == InitSub /\ [][NextSub]_vars

\* The parallel executor: one opener with or without the index on "u.e",
\* documents written to "u" and queried.
ParFilters ==
    {<<Filter(IdxField, "eq", Num(1))>>,
     <<Filter(IdxField, "gte", Num(1))>>,
     <<Filter(IdxField, "gte", Num(2)), Filter(IdxField, "eq", Num(2))>>}

NextPar ==
    \/ open(1, "none")
    \/ \E v \in {Doc(1), Doc(2)} : set(1, <<"u", "a">>, v)
    \/ set(1, <<"u", "b">>, Doc(2))
    \/ set(1, <<"u", "a", "e">>, Num(2))
    \/ \E F \in ParFilters : \E chunk \in {1, 2} : parallelQuery(1, <<"u">>, F, chunk)
    \/ set(1, <<"t", "a">>, Doc(1))
    \/ \E v \in {Obj1(IdxField, Str("1")), EmptyObj} : set(1, <<"t", "b">>, v)
    \/ \E chunk \in {1, 2} :
           parallelLookup(1, <<"u">>, <<"t">>, IdxField, IdxField, "h", chunk)
    \/ queryJoin(1, <<"u">>, <<"t">>, IdxField, IdxField, "h")
    \/ queryJoin(1, <<"t">>, <<"t">>, "x", IdxField, IdxField)
    \/ \E ops \in {<<SetOp(<<"t", "a">>, Doc(1)), SetOp(<<"t", "a">>, Doc(2))>>,
                    <<SetOp(<<"t", "a">>, Doc(1)), SetOp(<<"t">>, EmptyObj)>>,
                    <<SetOp(<<"t">>, EmptyObj), SetOp(<<"t", "b">>, Doc(1))>>,
                    <<SetOp(<<"x">>, Num(1)), SetOp(<<"x", "y">>, Num(2))>>} :
           \E chunk \in {1, 2} : batchSetParallel(1, ops, chunk)

SpecPar == InitSub /\ [][NextPar]_vars

\* Readers among writers: one opener with a WAL whose writers are cut at
\* their awaits (add, transactions) while get and has are called.
ReadCfgs == {Cfg("sync", FALSE, FALSE, FALSE, FALSE, FALSE)}

NextRead ==
    \/ open(1, "exclusive")
    \/ save(1)
    \/ \E v \in {Num(1), Obj1("y", Num(2))} : set(1, <<"x">>, v)
    \/ js[1].pending = <<>> /\ add(1, <<"x">>, 1)
    \/ settle(1)
    \/ txBegin(1)
    \/ txThrow(1)
    \/ \E op \in {"get", "has"} : \E p \in {<<"x">>, <<"x", "y">>} : read(1, op, p)

SpecRead == InitWith(ReadCfgs, FALSE) /\ [][NextRead]_vars

\* Options: one opener with durability and lockMode given or left out, with
\* and without the wal flag.
OptCfgs ==
    {Cfg(dur, wal, FALSE, FALSE, FALSE, FALSE) :
        dur \in {"unset", "none", "batched", "sync"}, wal \in BOOLEAN}

NextOpt ==
    \/ \E lockMode \in {"unset", "none", "exclusive"} : open(1, lockMode)
    \/ close(1)
    \/ \E v \in {Num(1), Num(2)} : set(1, <<"x">>, v)
    \/ delete(1, <<"x">>)
    \/ save(1)
    \/ autoSave(1)
    \/ walStatus(1)

SpecOpt == InitWith(OptCfgs, FALSE) /\ [][NextOpt]_vars

\* Pushes under a batched WAL: one opener that pushes one or two items to
\* "x" and to "y", saves, crashes and reopens.
PushCfgs == {Cfg("batched", TRUE, FALSE, FALSE, FALSE, FALSE)}

NextPush ==
    \/ open(1, "exclusive")
    \/ crash(1)
    \/ save(1)
    \/ sync(1)
    \/ \E p \in {<<"x">>, <<"y">>} : delete(1, p)
    \/ \E p \in {<<"x">>, <<"y">>} :
          \E items \in {<<Num(1)>>, <<Num(1), Num(2)>>, <<Num(2), Num(2)>>} :
              push(1, p, items)

SpecPush == InitWith(PushCfgs, FALSE) /\ [][NextPush]_vars

\* Writing subscribers: one opener whose subscribers of "u.*" and of "x"
\* are the writer "w" and the observer "f".
NextNest ==
    \/ open(1, "none")
    \/ close(1)
    \/ \E cb \in {"w", "f"} : subscribe(1, <<"u", "*">>, cb)
    \/ subscribe(1, <<"x">>, "f")
    \/ \E v \in {Doc(1), Doc(2)} : setReentrant(1, <<"u", "a">>, v)
    \/ set(1, <<"x">>, Num(2))

SpecNest == InitSub /\ [][NextNest]_vars

\* Schemas: one opener of a database with the schema on "u", with and
\* without the before-hook, that writes documents and fields through set,
\* add, push and batch.
SchemaCfgs == {Cfg("none", FALSE, FALSE, TRUE, FALSE, hook) : hook \in BOOLEAN}

NextSchema ==
    \/ open(1, "none")
    \/ close(1)
    \/ \E v \in {Doc(1), Num(1), EmptyObj} : set(1, <<"u", "a">>, v)
    \/ \E v \in {Num(2), Str("s")} : set(1, <<"u", "a", "e">>, v)
    \/ js[1].pending = <<>> /\ add(1, <<"u", "a", "e">>, 1)
    \/ settle(1)
    \/ push(1, <<"u", "b">>, <<Num(1)>>)
    \/ \E ops \in {<<BatchOp("set", <<"u", "a">>, Doc(2))>>,
                    <<BatchOp("set", <<"u", "a">>, Num(1))>>} : batch(1, ops)

SpecSchema == InitWith(SchemaCfgs, FALSE) /\ [][NextSchema]_vars

\* Independent callers: one opener on which callers that do not know of each
\* other call transaction(fn) with an fn that only waits, and set.
NextIso ==
    \/ open(1, "none")
    \/ txCall(1)
    \/ \E k \in 1..(MaxSavepoints + 1) : \E throws \in BOOLEAN : txEnd(1, k, throws)
    \/ \E v \in {Num(1), Num(2)} : set(1, <<"x">>, v)
    \/ delete(1, <<"x">>)

SpecIso == InitOps /\ [][NextIso]_vars

\* Expiry and removal: one opener that sets "u.a" with a TTL and removes it
\* by delete, by a delete of batch and by deleting or replacing "u".
NextExp ==
    \/ open(1, "none")
    \/ close(1)
    \/ \E v \in {Doc(1), Num(2)} : setWithTTL(1, <<"u", "a">>, v)
    \/ settle(1)
    \/ \E p \in {<<"u", "a">>, <<"u", "b">>} : set(1, p, Num(1))
    \/ \E p \in {<<"u", "a">>, <<"u">>} : delete(1, p)
    \/ set(1, <<"u">>, EmptyObj)
    \/ batch(1, <<BatchOp("delete", <<"u", "a">>, Undefined)>>)
    \/ ttlFire(1, <<"u", "a">>)

SpecExp == InitOps /\ [][NextExp]_vars

\* Timers: one opener that writes, saves and closes, with the calls around
\* the await of close in any order.
NextClose ==
    \/ open(1, "none")
    \/ closeCall(1)
    \/ settle(1)
    \/ save(1)
    \/ autoSave(1)
    \/ \E v \in {Num(1), Num(2)} : set(1, <<"x">>, v)
    \/ delete(1, <<"x">>)
    \/ add(1, <<"x">>, 1)
    \/ setWithTTL(1, <<"u", "a">>, Doc(1))
    \/ ttlFire(1, <<"u", "a">>)

SpecClose == InitOps /\ [][NextClose]_vars

\* Auto-save under a clock: one opener without a WAL that writes while time
\* passes.  Time does pass, and a timer whose delay has passed fires: both
\* are weakly fair.
NextSave ==
    \/ open(1, "none")
    \/ \E p \in {<<"x">>, <<"y">>} : \E v \in {Num(1), Num(2)} : set(1, p, v)
    \/ delete(1, <<"x">>)
    \/ tick(1)
    \/ autoSaveDue(1)

SpecSave ==
    InitOps /\ [][NextSave]_vars /\ WF_vars(tick(1)) /\ WF_vars(autoSaveDue(1))

\* Throwing subscribers: one opener whose subscribers of "u.*" are the
\* thrower "t" and the observers "f" and "h", with and without a listener of
\* 'error'.
NextThrow ==
    \/ open(1, "none")
    \/ close(1)
    \/ on(1, "error")
    \/ \E cb \in {"t", "f", "h"} : subscribe(1, <<"u", "*">>, cb)
    \/ \E v \in {Doc(1), Doc(2)} : setReentrant(1, <<"u", "a">>, v)

SpecThrow == InitSub /\ [][NextThrow]_vars

\* Queries: one opener, with and without the index on "u", that writes
\* documents and fields and runs queries with an eq filter on the indexed
\* field.
NextQuery ==
    \/ open(1, "none")
    \/ \E v \in {Doc(1), Doc(2)} : set(1, <<"u", "a">>, v)
    \/ set(1, <<"u", "b">>, Doc(2))
    \/ set(1, <<"u", "a", "e">>, Num(2))
    \/ delete(1, <<"u", "b">>)
    \/ set(1, <<"t", "a">>, Doc(1))
    \/ \E value \in {Num(1), Num(2)} : \E joined \in BOOLEAN :
           queryExec(1, <<"u">>, IdxField, value, joined)

SpecQuery == InitSub /\ [][NextQuery]_vars

\* Unsubscribing: one opener, two callbacks on the pattern "u.*" and one on
\* "u.a", writes below "u".
NextUnsub ==
    \/ open(1, "none")
    \/ close(1)
    \/ \E cb \in {"f", "h"} : subscribe(1, <<"u", "*">>, cb)
    \/ subscribe(1, <<"u", "a">>, "f")
    \/ \E cb \in {"f", "h"} : \E again \in BOOLEAN :
           unsubscribe(1, <<"u", "*">>, cb, again)
    \/ \E again \in BOOLEAN : unsubscribe(1, <<"u", "a">>, "f", again)
    \/ \E v \in {Num(1), Num(2)} : set(1, <<"u", "a">>, v)
    \/ delete(1, <<"u", "a">>)

SpecUnsub == InitOps /\ [][NextUnsub]_vars

\* Expiry: one opener with a subscriber on "u.*" setting "u.a" with a TTL.
\* The timer fires when its delay has passed and the continuation of an
\* await runs when the call stack is empty: both are weakly fair.
NextTTL ==
    \/ open(1, "none")
    \/ close(1)
    \/ subscribe(1, <<"u", "*">>, "f")
    \/ \E v \in {Doc(1), Num(2)} : setWithTTL(1, <<"u", "a">>, v)
    \/ settle(1)
    \/ set(1, <<"u", "a">>, Num(1))
    \/ delete(1, <<"u", "a">>)
    \/ clearTTL(1, <<"u", "a">>)
    \/ ttlFire(1, <<"u", "a">>)

SpecTTL ==
    InitSub /\ [][NextTTL]_vars
        /\ WF_vars(ttlFire(1, <<"u", "a">>)) /\ WF_vars(settle(1))

(***************************************************************************)
(* Claims.                                                                 *)
(***************************************************************************)

\* C1 (read-your-writes): after set(p, v) returned successfully with no
\* before-hook registered for p, and until the next mutation at p, at an
\* ancestor or at a descendant of p, get(p) returns a value equal to v and
\* has(p) is true.
C1_ReadYourWrites ==
    (g.w.has /\ g.w.live /\ ~g.w.hooked)
        => /\ get(nat[g.w.proc], g.w.path) = g.w.val
           /\ has(nat[g.w.proc], g.w.path)

\* a nested object was written, another path was written after it, and the
\* snapshot was saved since
C1_Witness ==
    /\ g.w.has /\ g.w.live /\ ~g.w.hooked
    /\ g.w.path = <<"x">>
    /\ IsObj(g.w.val)
    /\ last.op = "save"
    /\ native_has(nat[1], <<"u", "a", "e">>)

\* C10 (schema rejection has no side effect): a set that fails schema
\* validation raises the validation error and changes nothing: tree, indexes,
\* files and timer are as before, and no hook or subscriber ran.
C10_SchemaRejectionNoSideEffect ==
    [][(last'.op = "set" /\ last'.res = "ValidationError")
          => /\ nat' = nat
             /\ disk' = disk
             /\ js' = js
             /\ last'.fx = {}]_vars

\* a rejected set on a path a hook is registered for, with documents indexed
C10_Witness ==
    /\ last.op = "set" /\ last.res = "ValidationError"
    /\ cfg.hook /\ HookPattern(last.path)
    /\ js[1].saveTimeout = "fired"
    /\ nat[1].index # EmptyIndex

\* C2 (crash durability): a set acknowledged in mode sync, or followed by a
\* returned sync() in mode batched, and not overwritten since, is read back
\* by get after a crash and a reopen.
C2_CrashDurability ==
    (g.w.has /\ g.w.acked /\ g.w.crashed /\ js[g.w.proc].native)
        => get(nat[g.w.proc], g.w.path) = g.w.val

C4_TransactionAtomicity ==
    /\ last.op = "txThrow"
          => /\ last.res = "E"
             /\ nat[last.proc].tree = g.txPre
    /\ (g.ab.has /\ g.ab.crashed /\ js[g.ab.proc].native)
          => get(nat[g.ab.proc], g.ab.path) # g.ab.val

\* C5 (savepoint rollback): after tx.savepoint(n), any writes and
\* tx.rollbackTo(n), the tree equals the tree at the moment savepoint(n) was
\* called, and it still does after the transaction commits.
C5_SavepointRollback ==
    (g.rb # Undefined /\ js[1].native) => nat[1].tree = g.rb

\* the transaction committed after a rollbackTo: a write made before the
\* savepoint is present and the write made after it is not
C5_Witness ==
    /\ last.op = "txReturn" /\ last.name = "top"
    /\ g.rb # Undefined
    /\ native_get(nat[1], <<"x">>) = Num(1)
    /\ native_get(nat[1], <<"y">>) = Undefined
    /\ <<<<"y">>, Num(2)>> \in g.hist
    /\ disk.file.kind = "enc"

\* C6 (batch atomicity): a batch one of whose ops fails leaves the tree,
\* the indexes and the WAL exactly as they were before the call.
C6_BatchAtomicity ==
    [][(last'.op = "batch" /\ last'.res # "ok")
          => /\ nat'[1].tree = nat[1].tree
             /\ nat'[1].index = nat[1].index
             /\ disk'.wal = disk.wal]_vars

\* the buckets of two indexes hold the same paths
SameIndex(a, b) ==
    \A k \in IdxKeys :
        {a[k][j] : j \in 1..Len(a[k])} = {b[k][j] : j \in 1..Len(b[k])}

\* C7 (index consistency): after any sequence of operations the maintained
\* index equals the index a full rebuild from the current tree produces.
C7_IndexConsistency ==
    (cfg.idx /\ js[1].native)
        => SameIndex(nat[1].index, rebuildIndexByName(nat[1]).index)

\* the openers that hold the database in a locking mode
Holders == {i \in Procs : js[i].native /\ js[i].lockMode # "none"}

\* C8 (lock exclusion): an open in exclusive mode succeeds exactly when no
\* opener holds the database (so it fails with LockError while one does and
\* succeeds again after the holder's close), an open in shared mode succeeds
\* exactly when every holder is shared, and never do two openers hold the
\* database when one of them is exclusive.
C8_LockExclusion ==
    [][/\ \A i \in Holders', j \in Holders' :
              i # j => js'[i].lockMode = "shared" /\ js'[j].lockMode = "shared"
       /\ (last'.op = "open" /\ last'.name = "exclusive")
              => (last'.res = "ok" <=> Holders = {})
       /\ (last'.op = "open" /\ last'.name = "shared")
              => (last'.res = "ok" <=> \A j \in Holders : js[j].lockMode = "shared")
       /\ (last'.op = "open" /\ last'.res # "ok") => last'.res = "LockError"]_vars

MutatingOps == {"set", "delete", "push", "batch"}

\* C9 (read-only under a shared lock): every mutating operation of an opener
\* in shared mode fails with ReadOnly and leaves its tree unchanged, and no
\* operation of that opener, open, save and close included, changes the
\* snapshot file or the WAL.
C9_ReadOnlyUnderSharedLock ==
    [][/\ \A i \in Procs :
              (js[i].native /\ js[i].lockMode = "shared" /\ last'.proc = i
                  /\ last'.op \in MutatingOps \cup {"save", "close"})
                  => /\ disk'.file = disk.file
                     /\ disk'.wal = disk.wal
                     /\ last'.op \in MutatingOps
                           => last'.res = "ReadOnly" /\ nat'[i].tree = nat[i].tree
       /\ (last'.op = "open" /\ last'.name = "shared")
              => disk'.file = disk.file /\ disk'.wal = disk.wal]_vars


C12_AddSubtract ==
    [][(last.op = "call" /\ last.name = "add" /\ last'.op = "add"
            /\ Len(js[last.proc].pending) = 1) =>
        LET v == native_get(nat[last.proc], last.path)
            base == IF IsAbsent(v) THEN 0 ELSE v.n
        IN (IsAbsent(v) \/ IsNum(v)) =>
              /\ last'.res = "ok"
              /\ last'.val = Num(base + last.val.n)
              /\ native_get(nat'[last.proc], last.path) = Num(base + last.val.n)]_vars

\* a subtract on a path holding 1 has stored and returned 0
C12_Witness ==
    /\ last.op = "add" /\ last.res = "ok"
    /\ last.val = Num(0)
    /\ native_get(nat[1], last.path) = Num(0)
    /\ js[1].pending = <<>>
    /\ g.w.val = Num(0)


\* C13: add and subtract on a path that holds a value other than a number
\* fail with TypeError and leave the tree as it was, as a call of their own
\* and as the only op of a batch.
C13_AddOnNonNumber ==
    [][/\ (last.op = "call" /\ last.name = "add" /\ last'.op = "add"
               /\ Len(js[last.proc].pending) = 1
               /\ ~IsAbsent(native_get(nat[last.proc], last.path))
               /\ ~IsNum(native_get(nat[last.proc], last.path)))
           => (last'.res = "TypeError" /\ nat'[last.proc].tree = nat[last.proc].tree)
       /\ (last'.op = "batch" /\ Len(last'.val.a) = 1
               /\ last'.val.a[1].type \in {"add", "subtract"}
               /\ ~IsAbsent(native_get(nat[last'.proc], last'.val.a[1].path))
               /\ ~IsNum(native_get(nat[last'.proc], last'.val.a[1].path)))
           => (last'.res = "TypeError" /\ nat'[last'.proc].tree = nat[last'.proc].tree)
      ]_vars


\* C14: when add calls on one path, each started before the one before it
\* has resolved, have all resolved, the path holds the number it held before
\* the first of them plus all their amounts.
C14_ConcurrentAdd ==
    (g.sum.has /\ js[g.sum.proc].native /\ js[g.sum.proc].pending = <<>>)
        => native_get(nat[g.sum.proc], g.sum.path) = g.sum.val


\* C15: a pull(p, items) that runs alone on an array removes exactly the
\* elements equal to one of the items and keeps the others in their order;
\* when p holds no array it changes nothing and writes nothing.
C15_PullRemovesEqual ==
    [][(last.op = "call" /\ last.name = "pull" /\ last'.op = "pull"
            /\ Len(js[last.proc].pending) = 1) =>
        LET v == native_get(nat[last.proc], last.path)
            items == last.val.a
        IN IF IsArr(v)
           THEN /\ last'.res = "ok"
                /\ native_get(nat'[last.proc], last.path)
                      = Arr(SelectSeq(v.a, LAMBDA x : ~\E k \in 1..Len(items) :
                                                          x = items[k]))
           ELSE /\ nat' = nat /\ disk' = disk
                /\ "native" \notin last'.fx]_vars


\* C16: a batch whose ops all succeed leaves the tree that the single calls
\* set, delete, push, add and subtract with the same arguments, made one after
\* another in the order of the list on the tree the batch started from, leave.
C16_BatchAsSingles ==
    [][(last'.op = "batch" /\ last'.res = "ok") =>
        LET R == singles(Bundle(nat[last'.proc], disk), last'.val.a)
        IN R.err = "ok" => nat'[last'.proc].tree = R.n.tree]_vars


RECURSIVE Glob(_, _)
Glob(pattern, path) ==
    IF pattern = <<>> THEN path = <<>>
    ELSE IF Head(pattern) = "**"
    THEN Glob(Tail(pattern), path) \/ (path # <<>> /\ Glob(pattern, Tail(path)))
    ELSE /\ path # <<>>
         /\ Head(pattern) \in {"*", Head(path)}
         /\ Glob(Tail(pattern), Tail(path))

\* C18: every successful set, delete and push calls each subscriber whose
\* pattern matches the written path exactly once, and nobody else, with the
\* value the tree holds at the path after the write and the value it held
\* before; the calls are made within the write, so that the notifications of
\* two writes come in the order of the writes.
C18_NotificationOrder ==
    [][(last'.op \in {"set", "delete", "push"} /\ last'.res = "ok") =>
        LET i == last'.proc
            subs == js[i].subscriptions
            notes == last'.notes
        IN /\ \A s \in 1..Len(subs) :
                  Glob(subs[s].pat, last'.path)
                      => Cardinality({k \in 1..Len(notes) :
                                         /\ notes[k].pat = subs[s].pat
                                         /\ notes[k].cb = subs[s].cb}) = 1
           /\ \A k \in 1..Len(notes) :
                  /\ Glob(notes[k].pat, last'.path)
                  /\ notes[k].new = native_get(nat'[i], last'.path)
                  /\ notes[k].old = native_get(nat[i], last'.path)]_vars

\* C19: for every subscribed pattern and written path the code's matching is
\* that of the patterns: "*" one segment, "**" any number of segments.
C19_WildcardMatching ==
    (last.op \in {"set", "delete", "push"} /\ last.res = "ok" /\ js[last.proc].native)
        => \A s \in 1..Len(js[last.proc].subscriptions) :
              matchesPattern(js[last.proc].subscriptions[s].pat, last.path)
                  = Glob(js[last.proc].subscriptions[s].pat, last.path)


\* C20: while the timer of a path is set and nothing has written the path
\* since, get returns the value written; when the timer fires the path is
\* deleted as by delete (it is gone from the tree, the matching subscribers
\* get the old value), hasTTL is false and 'ttl:expired' is emitted; and a
\* timer that is set fires or is taken away by clearTTL, delete or close,
\* unless setTTL replaces it again and again.
C20_TTLExpiry ==
    /\ [](\A i \in Procs :
            (g.w.has /\ g.w.live /\ g.w.proc = i /\ ~g.w.hooked
                 /\ g.w.path \in js[i].ttlMap)
                => get(nat[i], g.w.path) = g.w.val)
    /\ [][last'.op = "ttlFire" =>
            LET i == last'.proc
                p == last'.path
                subs == js[i].subscriptions
            IN /\ last'.res = "ok"
               /\ nat'[i].tree = native_delete_at(nat[i].tree, p)
               /\ ~has(nat'[i], p)
               /\ p \notin js'[i].ttlEntries /\ p \notin js'[i].ttlMap
               /\ "ttl:expired" \in last'.fx
               /\ \A s \in 1..Len(subs) :
                      Glob(subs[s].pat, p) =>
                          \E k \in 1..Len(last'.notes) :
                              last'.notes[k] = [pat |-> subs[s].pat, cb |-> subs[s].cb,
                                                new |-> Undefined,
                                                old |-> native_get(nat[i], p)]]_vars
    /\ ([]<>(js[1].ttlMap = {}) \/ []<><<last'.op = "setTTL">>_vars)

\* the timer of "u.a" has fired on a stored document with a subscriber on
\* "u.*", which was told
C20_Witness ==
    /\ last.op = "ttlFire" /\ last.res = "ok"
    /\ Len(last.notes) = 1 /\ last.notes[1].old = Doc(1)
    /\ ~has(nat[1], last.path)
    /\ js[1].ttlEntries = {}


\* C21: a callback whose unsubscribe functions were all called is not called
\* by any later write; a call of an unsubscribe function leaves every other
\* callback subscribed, those of the same pattern included, in its place;
\* and a call of an unsubscribe function that was called before changes
\* nothing.
C21_Unsubscribe ==
    [][LET i == last'.proc
           subs == js[i].subscriptions
       IN /\ \A k \in 1..Len(last'.notes) :
                 LET f == Fn(g, last'.notes[k].pat, last'.notes[k].cb)
                 IN ~(f.stale /\ f.live = 0)
          /\ last'.op = "unsubscribe" =>
                 /\ SelectSeq(js'[i].subscriptions,
                              LAMBDA s : ~(s.pat = last'.path /\ s.cb = last'.name))
                    = SelectSeq(subs,
                                LAMBDA s : ~(s.pat = last'.path /\ s.cb = last'.name))
                 /\ last'.val = Str("again") => js'[i].subscriptions = subs]_vars


\* C22: parallelQuery returns the children of the collection that satisfy
\* every filter, each once and in the order of the collection, whatever the
\* size of the chunks and whether or not an index answers the equality
\* filter.
Satisfying(coll, filters) ==
    LET keys == SelectSeq(Entries(coll), LAMBDA k :
                    MatchesAll(native_get_at(coll, <<k>>), filters))
    IN [k \in 1..Len(keys) |-> native_get_at(coll, <<keys[k]>>)]
C22_ParallelEquivalence ==
    last.op = "parallelQuery" =>
        last.val = Arr(Satisfying(native_get(nat[last.proc], last.path), last.arg))


\* C23: the join gives one result per item of the left collection, in the
\* order of the left collection; a result is the left item with, under the
\* field as, the items of the right collection whose String(r[rf]) equals
\* String(l[lf]), in the order of the right collection and empty when there
\* is none; and the engine is left as it was.
C23_HashJoin ==
    [][last'.op \in {"parallelLookup", "join"} =>
        LET n == nat[last'.proc]
            c == last'.arg
            L == Values(native_get(n, last'.path))
            R == Values(native_get(n, c.to))
            res == last'.val.a
        IN /\ Len(res) = Len(L)
           /\ \A k \in 1..Len(L) :
                  /\ DOMAIN res[k].o = DOMAIN L[k].o \cup {c.as}
                  /\ \A f \in DOMAIN L[k].o \ {c.as} : res[k].o[f] = L[k].o[f]
                  /\ res[k].o[c.as] =
                         Arr(SelectSeq(R, LAMBDA r :
                                 String(Field(r, c.foreignField))
                                     = String(Field(L[k], c.localField))))
           /\ nat' = nat /\ disk' = disk]_vars

\* a lookup over two chunks of one left item each: the first item has two
\* partners, one of them through the string "1", the second has none
C23_Witness ==
    /\ last.op = "parallelLookup" /\ last.arg.chunk = 1
    /\ Len(last.val.a) = 2
    /\ last.val.a[1].o["h"] = Arr(<<Doc(1), Obj1(IdxField, Str("1"))>>)
    /\ last.val.a[2].o["h"] = Arr(<<>>)


Linearized(d, f) ==
    ReplayFrom([cur |-> Snapshot(d.file), open |-> FALSE, base |-> Snapshot(d.file)],
               d.wal[f]).cur
C26_ReadNonInterference ==
    \A i \in Procs : js[i].native =>
        LET view == [nat[i] EXCEPT !.tree = Linearized(disk, nat[i].target)]
        IN /\ (last.proc = i /\ last.op = "get") => last.val = get(view, last.path)
           /\ (last.proc = i /\ last.op = "has") => last.val = Bool(has(view, last.path))
           /\ \A p \in {<<"x">>, <<"x", "y">>} :
                  ENABLED read(i, "get", p) /\ ENABLED read(i, "has", p)

\* get returns the value a transaction in progress has written while an
\* add is waiting at its await
C26_Witness ==
    /\ last.op = "get" /\ last.val = Num(1)
    /\ js[1].inTransaction /\ js[1].pending # <<>>


RECURSIVE SetInOrder(_, _)
SetInOrder(t, operations) ==
    IF operations = <<>> THEN t
    ELSE SetInOrder(native_set_at(t, Head(operations).path, Head(operations).value),
                    Tail(operations))
C29_OptionDerivation ==
    /\ [](\A i \in Procs : js[i].native =>
            LET d == IF cfg.dur # "unset" THEN cfg.dur
                     ELSE IF cfg.wal THEN "batched" ELSE "none"
            IN /\ nat[i].dur = d
               /\ (last.proc = i /\ last.op = "walStatus") => last.val = Bool(d # "none")
               /\ js[i].saveTimeout = "armed" =>
                      js[i].saveDelay = IF d # "none" THEN 5 ELSE 1)
    /\ [](\A i \in Procs : js[i].native =>
            /\ nat[i].lock = js[i].lockMode
            /\ js[i].lockMode \in {"none", "exclusive"}
            /\ (last.proc = i /\ last.op = "open") => last.name = js[i].lockMode)


\* C30: a push of one or more items under a WAL appends exactly one record
\* to the log, and whatever a crash right after the call keeps of the log
\* the call has written, recovery finds at the path either the value from
\* before the call or the value after it, never the effect of some of the
\* items only.
C30_PushOneRecord ==
    [][(last'.op = "push" /\ last'.res = "ok" /\ nat[last'.proc].dur # "none") =>
          LET i == last'.proc
              f == nat[i].target
          IN /\ Len(disk'.wal[f]) = Len(disk.wal[f]) + 1
             /\ \A keep \in Len(disk.wal[f])..Len(disk'.wal[f]) :
                    keep >= disk'.synced[f] =>
                        LET d == [disk' EXCEPT !.wal[f] = SubSeq(@, 1, keep)]
                            found == native_get(loadData(js[i].lockMode, d).n,
                                                last'.path)
                        IN found \in {native_get(nat[i], last'.path),
                                      native_get(nat'[i], last'.path)}]_vars


\* C31: after a set or delete below a document of the indexed collection
\* (at "u.k.e" or deeper) the index entry of the document "u.k" follows the
\* document's field: the value the field has after the write maps to "u.k",
\* and no other value does.
C31_DeepIndexRefresh ==
    [][(last'.op \in {"set", "delete"} /\ last'.res = "ok" /\ cfg.idx
          /\ Len(last'.path) >= Len(IdxPath) + 2
          /\ SubSeq(last'.path, 1, Len(IdxPath)) = IdxPath) =>
          LET i == last'.proc
              doc == SubSeq(last'.path, 1, Len(IdxPath) + 1)
              now == Field(native_get(nat'[i], doc), IdxField)
          IN \A k \in IdxKeys :
                 InSeq(nat'[i].index[k], doc) <=> (~IsAbsent(now) /\ k = ToKey(now))]_vars


\* C32: a write a subscriber issues while it is being notified of an outer
\* write is not applied inside the outer write: among the calls one set
\* makes, no call that reports the inner write comes before a call that
\* reports the outer write.
C32_NoReentrantWrites ==
    [][(last'.op = "set" /\ last'.res = "ok") =>
          \A a, b \in 1..Len(last'.notes) :
              (a < b /\ "path" \in DOMAIN last'.notes[a]
                     /\ "path" \in DOMAIN last'.notes[b]) =>
                  ~(last'.notes[a].path # last'.path
                        /\ last'.notes[b].path = last'.path)]_vars


\* the documents the tree holds under the prefix of the schema conform to it
Conforms(t) ==
    LET coll == native_get_at(t, IdxPath)
    IN IsObj(coll) => \A k \in DOMAIN coll.o : DocOk(coll.o[k])

\* C33: at every moment every value stored under the prefix of the
\* registered schema conforms to the schema, whichever operation wrote it.
C33_SchemaConformance ==
    \A i \in Procs : (js[i].native /\ cfg.schema) => Conforms(nat[i].tree)


\* C34: with or without encryptionKey, the engine instance that serves the
\* operations of an open database has the schemas of the options, the
\* configured lock mode and durability, holds the lock of the database and
\* logs to the WAL of the database's own path.
C34_OptionsSurviveEncryption ==
    \A i \in Procs : js[i].native =>
        /\ nat[i].schema = cfg.schema
        /\ nat[i].lock = js[i].lockMode
        /\ nat[i].dur = Durability(cfg.dur, cfg.wal)
        /\ nat[i].target = "main"


\* C35: transactions of independent callers are isolated.  With every
\* transaction(fn) a top-level call of a caller of its own and every set the
\* plain write of another caller: the set that resolved just before the
\* first transaction failed is still in the tree after the rollback; no call
\* is run as a savepoint of another; and the in-transaction flag is true
\* exactly while the fn of some call is running.
C35_CallerIsolation ==
    /\ [][(last'.op = "txEnd" /\ last'.val = Str("throw") /\ last'.name = "top"
             /\ last.op = "set" /\ last.res = "ok") =>
            get(nat'[last'.proc], last.path) = last.val]_vars
    /\ [][(last'.op = "txCall" /\ last'.res = "ok") => last'.name = "top"]_vars
    /\ [](\A i \in Procs : js[i].native =>
            (js[i].inTransaction <=> js[i].frames # <<>>))


\* C36: an operation that removes the path "u.a" (its delete, a delete of
\* batch, the delete or the replacement of "u") leaves no TTL timer and no
\* TTL entry of the path behind, so that no timer deletes what is written to
\* the path afterwards.
C36_RemovalCancelsTTL ==
    [][\A i \in Procs :
          (js[i].native /\ js'[i].native
             /\ native_has(nat[i], <<"u", "a">>)
             /\ ~native_has(nat'[i], <<"u", "a">>)) =>
              /\ <<"u", "a">> \notin js'[i].ttlMap
              /\ <<"u", "a">> \notin js'[i].ttlEntries]_vars


\* C37: every successful write leaves the auto-save timer armed, save()
\* leaves none, and once close() has returned neither the auto-save timer
\* nor a TTL timer is pending, whatever ran at the await of close.
C37_TimerDiscipline ==
    /\ [][(last'.op \in {"set", "delete", "add", "setWithTTL"} /\ last'.res = "ok")
             => js'[last'.proc].saveTimeout = "armed"]_vars
    /\ [][last'.op = "save" => js'[last'.proc].saveTimeout = "null"]_vars
    /\ [](\A i \in Procs : ~js[i].native =>
             /\ js[i].saveTimeout # "armed"
             /\ js[i].ttlMap = {})


\* C38: after any write the auto-save timer eventually fires, also when
\* further writes keep arriving before the delay of the timer has passed:
\* no auto-save timer stays pending forever.
C38_AutoSaveLiveness ==
    \A i \in Procs : (js[i].saveTimeout = "armed") ~> (js[i].saveTimeout = "fired")


\* C39: when a subscriber throws while it is notified of a set, the set
\* still resolves with the value stored, every matching subscriber is
\* called, 'change' is emitted and the error is reported as an 'error'
\* event, with or without a listener of 'error'.
C39_ThrowingSubscriber ==
    [][(last'.op = "set"
          /\ \E k \in 1..Len(last'.notes) : last'.notes[k].cb = "t") =>
          LET i == last'.proc
              subs == js[i].subscriptions
          IN /\ last'.res = "ok"
             /\ native_has(nat'[i], last'.path)
             /\ Len(last'.notes)
                    = Len(SelectSeq(subs, LAMBDA s : matchesPattern(s.pat, last'.path)))
             /\ {"change", "error"} \subseteq last'.fx]_vars


\* C40: exec of a query with an eq filter on the indexed field returns the
\* items, in the order, that filtering all items of the builder gives, with
\* and without an index, after any writes, and with a join applied before.
C40_IndexTransparency ==
    [][last'.op = "exec" =>
          last'.val = Arr(exec(nat[last'.proc], FALSE, last'.path, last'.arg.items,
                               last'.arg.field, last'.arg.value))]_vars

=============================================================================
